---- MODULE Spec2Model ----
(***************************************************************************)
(* The RSVP service of the wedding application: the validation and         *)
(* normalisation functions of src/models/Rsvp.js, the store operations of  *)
(* src/services/rsvpService.js and the HTTP handlers of                    *)
(* src/pages/api/rsvps/index.js and src/pages/api/rsvps/[id].js.           *)
(***************************************************************************)
EXTENDS Integers, Sequences, FiniteSets, TLC

VARIABLES
  store,    \* the rsvps collection: documents in insertion order
  nextId,   \* number of ObjectIds the store has generated so far
  now,      \* the clock read by new Date()
  req,      \* the HTTP request being served (NoReq when idle)
  res,      \* the response the handler sent for req
  dbCalls,  \* the store calls the handler made while serving req
  served,   \* number of requests served so far
  arg,      \* argument of a direct call of a pure function (NoArg if none)
  ret,      \* result of that call
  calls,    \* the asynchronous calls in flight, one record for each caller
  conn,     \* the connection cache of lib/mongodb.js and the clients created
  page      \* the state of the browser component in use (NoPage if none)

vars ==
  <<store, nextId, now, req, res, dbCalls, served, arg, ret, calls, conn, page>>

\* The variables of the server.
serverVars == <<store, nextId, now, req, res, dbCalls, served, arg, ret>>

----------------------------------------------------------------------------
(* Bounds of the model.                                                    *)

\* ObjectIds the store may generate in one behaviour.
MaxIds == 2
\* Largest value of the clock.
MaxTime == 1
\* Requests served in one behaviour.
MaxRequests == 3

----------------------------------------------------------------------------
(* JavaScript values.  Every value is a record whose field t is its type   *)
(* tag; strings are sequences of characters.                               *)

Undefined == [t |-> "undefined"]
Null == [t |-> "null"]
Bool(b) == [t |-> "boolean", v |-> b]
Num(n) == [t |-> "number", v |-> n]
Str(s) == [t |-> "string", v |-> s]
Obj(f) == [t |-> "object", v |-> f]
Date(n) == [t |-> "date", v |-> n]
ObjectId(h) == [t |-> "objectid", v |-> h]

\* typeof v
typeof(v) ==
  IF v.t \in {"null", "date", "objectid"} THEN "object" ELSE v.t

\* Boolean(v), and the truthiness used by !v and ||
Truthy(v) ==
  CASE v.t = "undefined" -> FALSE
    [] v.t = "null" -> FALSE
    [] v.t = "boolean" -> v.v
    [] v.t = "number" -> v.v # 0
    [] v.t = "string" -> v.v # <<>>
    [] OTHER -> TRUE

\* o.k for a plain object held as a function from keys to values
Get(o, k) == IF k \in DOMAIN o THEN o[k] ELSE Undefined

\* v?.k : undefined for undefined and null, a property read otherwise
\* (a primitive has none of the properties read here)
OptGet(v, k) == IF v.t = "object" THEN Get(v.v, k) ELSE Undefined

IsSpace(c) == c = " "

SetMin(S) == CHOOSE x \in S : \A y \in S : x <= y
SetMax(S) == CHOOSE x \in S : \A y \in S : x >= y

\* Mutant of trim: one leading white-space character is removed.
trimOneLeading(s) == IF s # <<>> /\ IsSpace(s[1]) THEN Tail(s) ELSE s

\* String.prototype.trim
trim(s) ==
  LET keep == {i \in 1..Len(s) : ~IsSpace(s[i])}
  IN IF keep = {} THEN <<>> ELSE SubSeq(s, SetMin(keep), SetMax(keep))

LowerOf ==
  [A |-> "a", B |-> "b", C |-> "c", D |-> "d", E |-> "e", F |-> "f", S |-> "s"]

\* String.prototype.toLowerCase
toLowerCase(s) ==
  [i \in 1..Len(s) |-> IF s[i] \in DOMAIN LowerOf THEN LowerOf[s[i]] ELSE s[i]]

\* /^[^\s@]+@[^\s@]+\.[^\s@]+$/.test(s)
emailRegexTest(s) ==
  \E i \in 1..Len(s) : \E j \in 1..Len(s) :
    /\ 1 < i /\ i + 1 < j /\ j < Len(s)
    /\ s[i] = "@"
    /\ s[j] = "."
    /\ \A k \in 1..Len(s) : ~IsSpace(s[k]) /\ (s[k] = "@" => k = i)

----------------------------------------------------------------------------
(* validateRsvp, src/models/Rsvp.js                                        *)

MsgName == "Name is required"
MsgEmail == "Email is required"
MsgEmailFormat == "Invalid email format"
MsgPhone == "Phone is required"
MsgAttending == "Attending status is required"
MsgGuests == "Guests status is required"
MsgAccommodations == "Accommodations status is required"
MsgGuestName == "Guest name is required when bringing guests"
MsgAccommodationsText ==
  "Accommodation details are required when accommodations are needed"

\* !v || typeof v !== 'string' || !v.trim()
MissingText(v) ==
  \/ ~Truthy(v)
  \/ typeof(v) # "string"
  \/ trim(v.v) = <<>>

If(c, m) == IF c THEN <<m>> ELSE <<>>

checkName(data) == If(MissingText(Get(data, "name")), MsgName)

checkEmail(data) ==
  IF MissingText(Get(data, "email"))
  THEN <<MsgEmail>>
  ELSE If(~emailRegexTest(Get(data, "email").v), MsgEmailFormat)

checkPhone(data) == If(MissingText(Get(data, "phone")), MsgPhone)

checkAttending(data) ==
  If(typeof(Get(data, "attending")) # "boolean", MsgAttending)

checkGuests(data) == If(typeof(Get(data, "guests")) # "boolean", MsgGuests)

checkAccommodations(data) ==
  If(typeof(Get(data, "accommodations")) # "boolean", MsgAccommodations)

checkGuestName(data) ==
  IF Get(data, "guests") = Bool(TRUE)
  THEN If(MissingText(Get(data, "guestName")), MsgGuestName)
  ELSE <<>>

\* Mutant of checkAccommodationsText: the text is not trimmed before the test.
checkAccommodationsTextNoTrim(data) ==
  IF Get(data, "accommodations") = Bool(TRUE)
  THEN If(~Truthy(Get(data, "accommodationsText"))
            \/ typeof(Get(data, "accommodationsText")) # "string",
          MsgAccommodationsText)
  ELSE <<>>

checkAccommodationsText(data) ==
  IF Get(data, "accommodations") = Bool(TRUE)
  THEN If(MissingText(Get(data, "accommodationsText")), MsgAccommodationsText)
  ELSE <<>>

\* Mutant of validateErrors: validation stops at the first failing check.
validateErrorsShortCircuit(data) ==
  LET all == checkName(data) \o checkEmail(data) \o checkPhone(data)
               \o checkAttending(data) \o checkGuests(data)
               \o checkAccommodations(data) \o checkGuestName(data)
               \o checkAccommodationsText(data)
  IN IF all = <<>> THEN <<>> ELSE <<Head(all)>>

\* The errors array validateRsvp builds, one push after the other.
validateErrors(data) ==
  checkName(data) \o checkEmail(data) \o checkPhone(data)
    \o checkAttending(data) \o checkGuests(data)
    \o checkAccommodations(data) \o checkGuestName(data)
    \o checkAccommodationsText(data)

\* Mutant of validateRsvp: the errors found do not make the data invalid.
validateRsvpAcceptsAll(data) ==
  LET errors == validateErrors(data)
  IN [isValid |-> TRUE, errors |-> errors]

validateRsvp(data) ==
  LET errors == validateErrors(data)
  IN [isValid |-> Len(errors) = 0, errors |-> errors]

----------------------------------------------------------------------------
(* createRsvpObject, src/models/Rsvp.js                                    *)

\* v?.trim() throws a TypeError when v is neither nullish nor a string
TrimThrows(v) == v.t \notin {"undefined", "null", "string"}

\* v?.trim() || ''
TrimOrEmpty(v) == IF v.t = "string" THEN Str(trim(v.v)) ELSE Str(<<>>)

\* v?.toLowerCase().trim() || ''
LowerTrimOrEmpty(v) ==
  IF v.t = "string" THEN Str(trim(toLowerCase(v.v))) ELSE Str(<<>>)

TextFields == {"name", "email", "phone", "guestName", "accommodationsText",
               "song", "message"}

DietFlags == {"none", "vegetarian", "vegan", "glutenFree", "nutAllergy",
              "shellfishAllergy"}

createRsvpObjectThrows(data) ==
  \/ \E f \in TextFields : TrimThrows(Get(data, f))
  \/ TrimThrows(OptGet(Get(data, "dietaryRestrictions"), "other"))

\* The dietaryRestrictions sub-object, rebuilt field by field.
normalizeDiet(dr) ==
  Obj([k \in DietFlags \cup {"other"} |->
         IF k = "other"
         THEN TrimOrEmpty(OptGet(dr, "other"))
         ELSE Bool(Truthy(OptGet(dr, k)))])

\* tc and tu are the values of the two new Date() calls.
createRsvpObject(data, tc, tu) ==
  [name |-> TrimOrEmpty(Get(data, "name")),
   email |-> LowerTrimOrEmpty(Get(data, "email")),
   phone |-> TrimOrEmpty(Get(data, "phone")),
   attending |-> Bool(Truthy(Get(data, "attending"))),
   guests |-> Bool(Truthy(Get(data, "guests"))),
   guestName |-> TrimOrEmpty(Get(data, "guestName")),
   dietaryRestrictions |-> normalizeDiet(Get(data, "dietaryRestrictions")),
   accommodations |-> Bool(Truthy(Get(data, "accommodations"))),
   accommodationsText |-> TrimOrEmpty(Get(data, "accommodationsText")),
   song |-> TrimOrEmpty(Get(data, "song")),
   message |-> TrimOrEmpty(Get(data, "message")),
   approved |-> Bool(Truthy(Get(data, "approved"))),
   createdAt |-> IF Truthy(Get(data, "createdAt"))
                 THEN Get(data, "createdAt") ELSE Date(tc),
   updatedAt |-> Date(tu)]

----------------------------------------------------------------------------
(* The driver: ObjectId and the operations of a collection.                *)

IdLength == 24

HexChars == {"0", "1", "2", "3", "4", "5", "6", "7", "8", "9",
             "a", "b", "c", "d", "e", "f", "A", "B", "C", "D", "E", "F"}

\* new ObjectId(s) throws unless s is a string of 24 hex characters
ObjectIdThrows(s) ==
  ~(Len(s) = IdLength /\ \A i \in 1..Len(s) : s[i] \in HexChars)

\* new ObjectId(s): the twelve bytes, written in lower-case hex
ObjectIdFrom(s) == ObjectId(toLowerCase(s))

HexDigit == <<"a", "b", "c", "d", "e", "f">>

\* The hex string of the n-th ObjectId the store generates.
GeneratedHex(n) == [i \in 1..IdLength |-> IF i = IdLength THEN HexDigit[n] ELSE "0"]

\* Index of the first document matching the filter {k: v}, 0 if none.
FirstIndex(coll, k, v) ==
  LET hits == {i \in 1..Len(coll) : Get(coll[i], k) = v}
  IN IF hits = {} THEN 0 ELSE SetMin(hits)

\* collection.findOne({k: v})
findOne(coll, k, v) ==
  LET i == FirstIndex(coll, k, v) IN IF i = 0 THEN Null ELSE coll[i]

\* collection.insertOne(doc): the collection after the insert
insertOne(coll, doc, oid) == Append(coll, ("_id" :> oid) @@ doc)

\* Mutant of findOneAndUpdate: the document is replaced by the fields set.
findOneAndReplace(coll, k, v, set) ==
  LET i == FirstIndex(coll, k, v)
  IN IF i = 0 THEN coll
     ELSE [coll EXCEPT ![i] = set @@ ("_id" :> coll[i]["_id"])]

\* collection.findOneAndUpdate({k: v}, {$set: set}): the collection after it
findOneAndUpdate(coll, k, v, set) ==
  LET i == FirstIndex(coll, k, v)
  IN IF i = 0 THEN coll ELSE [coll EXCEPT ![i] = set @@ coll[i]]

\* Mutant of deleteOne: the oldest document is removed when one matches.
deleteOneOldest(coll, k, v) ==
  IF FirstIndex(coll, k, v) = 0 THEN coll ELSE Tail(coll)

\* collection.deleteOne({k: v}): the collection after it
deleteOne(coll, k, v) ==
  LET i == FirstIndex(coll, k, v)
  IN IF i = 0 THEN coll
     ELSE [j \in 1..(Len(coll) - 1) |-> IF j < i THEN coll[j] ELSE coll[j + 1]]

----------------------------------------------------------------------------
(* The store operations of src/services/rsvpService.js.                    *)

\* The document createRsvp builds: the data with both timestamps overwritten.
createRsvpDoc(rsvpData, t1, t2) ==
  ("createdAt" :> Date(t1)) @@ ("updatedAt" :> Date(t2)) @@ rsvpData

\* Mutant of createRsvpResult: the data is returned as it was passed in.
createRsvpResultStale(rsvpData, oid, t1, t2) == ("_id" :> oid) @@ rsvpData

\* The record createRsvp returns: the generated _id and the document.
createRsvpResult(rsvpData, oid, t1, t2) ==
  ("_id" :> oid) @@ createRsvpDoc(rsvpData, t1, t2)

\* The collection after createRsvp.
createRsvp(coll, rsvpData, oid, t1, t2) ==
  insertOne(coll, createRsvpDoc(rsvpData, t1, t2), oid)

getRsvpById(coll, id) == findOne(coll, "_id", ObjectIdFrom(id))

\* Mutant of updateRsvp: the update stamps createdAt as well.
updateRsvpStampsCreated(coll, id, updateData, t) ==
  findOneAndUpdate(coll, "_id", ObjectIdFrom(id),
                   ("updatedAt" :> Date(t)) @@ ("createdAt" :> Date(t))
                     @@ updateData)

\* The collection after updateRsvp; its result is getRsvpById on that collection.
updateRsvp(coll, id, updateData, t) ==
  findOneAndUpdate(coll, "_id", ObjectIdFrom(id),
                   ("updatedAt" :> Date(t)) @@ updateData)

\* The collection after deleteRsvp.
deleteRsvp(coll, id) == deleteOne(coll, "_id", ObjectIdFrom(id))

\* The value deleteRsvp returns: deletedCount > 0.
deleteRsvpResult(coll, id) == FirstIndex(coll, "_id", ObjectIdFrom(id)) # 0

----------------------------------------------------------------------------
(* Requests and responses.                                                 *)

EmptyObj == [k \in {} |-> Undefined]

NoReq == [method |-> "", path |-> "", id |-> <<>>, body |-> EmptyObj]

Request(method, path, id, body) ==
  [method |-> method, path |-> path, id |-> id, body |-> body]

\* res.status(status).json({success, error, errors, data})
Response(status, success, error, errors, data) ==
  [status |-> status, success |-> success, error |-> error,
   errors |-> errors, data |-> data]

NoRes == Response(0, FALSE, "", <<>>, Null)

NoArg == EmptyObj

NoRet == [isValid |-> FALSE, errors |-> <<"">>]

\* The connection cache before the first connectToDatabase call.
NoConn ==
  [pings |-> FALSE, cachedClient |-> Null, cachedDb |-> Null, clients |-> <<>>]

\* No browser component is in use.
NoPage == [component |-> ""]

----------------------------------------------------------------------------
(* handlePut, src/pages/api/rsvps/[id].js                                  *)

Present(body, k) == Get(body, k) # Undefined

\* guestName.trim() throws when guestName is not a string
handlePutThrows(body) ==
  Present(body, "guestName") /\ Get(body, "guestName").t # "string"

\* Mutant of handlePutBadEmail: no email is refused.
handlePutAnyEmail(body) == FALSE

\* !emailRegex.test(email); a value that is not a string is tested as its
\* string form, which for null, a number or a boolean holds no "@"
handlePutBadEmail(body) ==
  /\ Present(body, "email")
  /\ \/ Get(body, "email").t # "string"
     \/ ~emailRegexTest(Get(body, "email").v)

PutPassThrough == {"numberOfGuests", "dietaryRestrictions", "comments"}

PutFields == {"guestName", "email", "attending", "approved"} \cup PutPassThrough

\* The updateData object handlePut builds from the body.
handlePutUpdateData(body) ==
  [k \in {f \in PutFields : Present(body, f)} |->
     CASE k = "guestName" -> Str(trim(Get(body, k).v))
       [] k = "email" -> Str(trim(toLowerCase(Get(body, k).v)))
       [] k \in {"attending", "approved"} -> Bool(Truthy(Get(body, k)))
       [] OTHER -> Get(body, k)]

----------------------------------------------------------------------------
(* The inputs the clients send.                                            *)

Blank == <<" ">>
TextAl == <<"A", "l">>
TextSam == <<" ", "S", "a", "m", " ">>
TextBob == <<"B", "o", "b">>
TextPhone == <<"5", "5", "5">>
EmailA == <<"a", "@", "b", ".", "c">>
EmailB == <<"B", "@", "b", ".", "C">>
EmailNoDot == <<"a", "@", "b">>
EmailSpace == <<" ", "a", "@", "b", ".", "c">>
EmailTwoAt == <<"a", "@", "@", "b", ".", "c">>
EmailDots == <<"a", ".", "b", "@", "c", ".", "d", ".", "e">>
EmailEndDot == <<"a", "@", "b", ".">>

\* A submission holding the six required fields and nothing else.
BasePayload ==
  [name |-> Str(TextAl), email |-> Str(EmailA), phone |-> Str(TextPhone),
   attending |-> Bool(TRUE), guests |-> Bool(FALSE),
   accommodations |-> Bool(FALSE)]

\* The fields a submission sets over BasePayload.
PostOverrides ==
  { EmptyObj,
    [guests |-> Bool(TRUE), guestName |-> Str(TextSam)],
    [guests |-> Bool(TRUE), guestName |-> Str(Blank)],
    [guests |-> Num(1), accommodations |-> Num(1)],
    [guestName |-> Num(5)],
    [accommodations |-> Bool(TRUE), accommodationsText |-> Str(TextSam)],
    [accommodations |-> Bool(TRUE), accommodationsText |-> Str(Blank)],
    [approved |-> Bool(TRUE)],
    [email |-> Str(EmailB), attending |-> Bool(FALSE)],
    [email |-> Str(EmailNoDot), name |-> Str(Blank)],
    [dietaryRestrictions |->
       Obj([vegan |-> Bool(TRUE), other |-> Str(TextSam), kosher |-> Bool(TRUE)]),
     role |-> Str(TextBob)] }

PostBodies == {o @@ BasePayload : o \in PostOverrides}

\* The bodies of the PUT requests.
PutBodies ==
  { EmptyObj,
    [approved |-> Bool(TRUE)],
    [approved |-> Bool(FALSE)],
    [guestName |-> Str(Blank)],
    [guestName |-> Null, email |-> Str(EmailNoDot)],
    [email |-> Str(EmailB), attending |-> Bool(FALSE)],
    [email |-> Str(EmailNoDot), approved |-> Bool(TRUE)],
    [email |-> Str(EmailSpace)],
    [numberOfGuests |-> Num(2), comments |-> Str(TextBob),
     dietaryRestrictions |-> Obj([halal |-> Bool(TRUE)])],
    [accommodations |-> Bool(TRUE), guestName |-> Str(TextBob)] }

\* The id path segments: the generated ids, one of them in upper case, a
\* 24-character string that is not hex, and a string of another length.
UpperId == [i \in 1..IdLength |-> IF i = IdLength THEN "A" ELSE "0"]
NonHexId == [i \in 1..IdLength |-> IF i = IdLength THEN "z" ELSE "0"]
ShortId == <<"a">>

IdStrings ==
  {GeneratedHex(n) : n \in 1..MaxIds} \cup {UpperId, NonHexId, ShortId}

\* The PUT requests, <<id, body>>: every body to the generated ids, and an
\* approval to the other ids.
PutRequests ==
  {<<GeneratedHex(n), body>> : n \in 1..MaxIds, body \in PutBodies}
    \cup {<<id, [approved |-> Bool(TRUE)]>> : id \in {UpperId, NonHexId, ShortId}}

\* The query strings of GET /api/rsvps.
TextTrue == <<"t", "r", "u", "e">>
TextFalse == <<"f", "a", "l", "s", "e">>

ListQueries ==
  { EmptyObj,
    [attending |-> Str(TextTrue), limit |-> Str(<<"0">>)],
    [attending |-> Str(TextFalse), limit |-> Str(<<"1">>)],
    [limit |-> Str(<<"1">>)],
    [attending |-> Str(TextAl), limit |-> Str(<<"x">>)] }

\* The query strings of GET /api/rsvps/check-email.
EmailUpperA == <<"A", "@", "B", ".", "C">>

EmailQueries ==
  { EmptyObj, [email |-> Str(EmailB)], [email |-> Str(EmailUpperA)],
    [email |-> Str(EmailSpace)] }

\* Requests with a method the route does not serve: <<method, path, id>>.
OtherMethodRequests ==
  { <<"PATCH", "/api/rsvps", <<>>>>,
    <<"PATCH", "/api/rsvps/[id]", GeneratedHex(1)>>,
    <<"PATCH", "/api/rsvps/[id]", ShortId>>,
    <<"PATCH", "/api/rsvps/stats", <<>>>>,
    <<"PATCH", "/api/rsvps/check-email", <<>>>> }

\* The inputs of the direct calls of validateRsvp.
ValidateTexts == {Undefined, Num(5), Str(<<>>), Str(Blank), Str(TextAl)}
ValidateEmails ==
  {Undefined, Num(5), Str(<<>>), Str(Blank), Str(EmailA), Str(EmailNoDot),
   Str(EmailSpace), Str(EmailTwoAt), Str(EmailDots), Str(EmailEndDot)}
ValidateFlags == {Undefined, Bool(TRUE), Bool(FALSE), Num(1)}

ValidateInputs ==
  [name : {Undefined, Bool(TRUE), Str(Blank), Str(TextAl)},
   email : ValidateEmails,
   phone : {Null, Str(TextPhone)},
   attending : {Undefined, Bool(FALSE), Str(TextAl)},
   guests : ValidateFlags,
   accommodations : ValidateFlags,
   guestName : ValidateTexts,
   accommodationsText : ValidateTexts]

----------------------------------------------------------------------------
(* The state machine.                                                      *)

Init ==
  /\ store = <<>>
  /\ nextId = 0
  /\ now = 0
  /\ req = NoReq
  /\ res = NoRes
  /\ dbCalls = <<>>
  /\ served = 0
  /\ arg = NoArg
  /\ ret = NoRet
  /\ calls = <<>>
  /\ conn = NoConn
  /\ page = NoPage

Idle == req = NoReq

\* Time passes between two requests.
Tick ==
  /\ Idle
  /\ now < MaxTime
  /\ now' = now + 1
  /\ UNCHANGED <<store, nextId, req, res, dbCalls, served, arg, ret, calls, conn, page>>

\* Mutant of InternalServerError: the fault propagates and nothing is sent.
InternalServerErrorUnsent == NoRes

\* The catch block of the handlers.
InternalServerError == Response(500, FALSE, "Internal Server Error", <<>>, Null)

\* POST /api/rsvps: handler and handlePost of index.js.  A null body makes
\* validateRsvp throw on data.name.
HandlePost(body) ==
  /\ Idle
  /\ served < MaxRequests
  /\ served' = served + 1
  /\ req' = Request("POST", "/api/rsvps", <<>>, body)
  /\ UNCHANGED <<arg, ret, calls, conn, page>>
  /\ LET validation == validateRsvp(body) IN
     IF body = Null
     THEN /\ res' = InternalServerError
          /\ dbCalls' = <<>>
          /\ UNCHANGED <<store, nextId, now>>
     ELSE IF ~validation.isValid
     THEN /\ res' = Response(400, FALSE, "Validation failed",
                             validation.errors, Null)
          /\ dbCalls' = <<>>
          /\ UNCHANGED <<store, nextId, now>>
     ELSE IF createRsvpObjectThrows(body)
     THEN /\ res' = InternalServerError
          /\ dbCalls' = <<>>
          /\ UNCHANGED <<store, nextId, now>>
     ELSE /\ nextId < MaxIds
          /\ \E t2 \in {now, now + 1} :
               LET rsvpData == createRsvpObject(body, now, now)
                   oid == ObjectId(GeneratedHex(nextId + 1))
               IN /\ t2 <= MaxTime
                  /\ store' = createRsvp(store, rsvpData, oid, now, t2)
                  /\ res' = Response(201, TRUE, "", <<>>,
                                     createRsvpResult(rsvpData, oid, now, t2))
                  /\ now' = t2
          /\ nextId' = nextId + 1
          /\ dbCalls' = <<"connectToDatabase", "insertOne">>

\* handleGet of [id].js
handleGet(id) ==
  /\ res' = IF getRsvpById(store, id) = Null
            THEN Response(404, FALSE, "RSVP not found", <<>>, Null)
            ELSE Response(200, TRUE, "", <<>>, getRsvpById(store, id))
  /\ dbCalls' = <<"connectToDatabase", "findOne">>
  /\ UNCHANGED <<store, now>>

\* handlePut of [id].js
handlePut(id, body) ==
  IF getRsvpById(store, id) = Null
  THEN /\ res' = Response(404, FALSE, "RSVP not found", <<>>, Null)
       /\ dbCalls' = <<"connectToDatabase", "findOne">>
       /\ UNCHANGED <<store, now>>
  ELSE IF handlePutThrows(body)
  THEN /\ res' = InternalServerError
       /\ dbCalls' = <<"connectToDatabase", "findOne">>
       /\ UNCHANGED <<store, now>>
  ELSE IF handlePutBadEmail(body)
  THEN /\ res' = Response(400, FALSE, "Invalid email format", <<>>, Null)
       /\ dbCalls' = <<"connectToDatabase", "findOne">>
       /\ UNCHANGED <<store, now>>
  ELSE IF DOMAIN handlePutUpdateData(body) = {}
  THEN /\ res' = Response(400, FALSE, "No fields to update", <<>>, Null)
       /\ dbCalls' = <<"connectToDatabase", "findOne">>
       /\ UNCHANGED <<store, now>>
  ELSE /\ store' = updateRsvp(store, id, handlePutUpdateData(body), now)
       /\ res' = Response(200, TRUE, "", <<>>, getRsvpById(store', id))
       /\ dbCalls' = <<"connectToDatabase", "findOne",
                       "connectToDatabase", "findOneAndUpdate">>
       /\ UNCHANGED now

\* handleDelete of [id].js
handleDelete(id) ==
  /\ store' = deleteRsvp(store, id)
  /\ res' = IF deleteRsvpResult(store, id)
            THEN Response(200, TRUE, "", <<>>, Null)
            ELSE Response(404, FALSE, "RSVP not found", <<>>, Null)
  /\ dbCalls' = <<"connectToDatabase", "deleteOne">>
  /\ UNCHANGED now

\* handler of [id].js: the request is taken up.
Route(method, id, body) ==
  /\ Idle
  /\ served < MaxRequests
  /\ served' = served + 1
  /\ req' = Request(method, "/api/rsvps/[id]", id, body)
  /\ UNCHANGED <<nextId, arg, ret, calls, conn, page>>

\* handler of [id].js: the id is refused by the length test, or it reaches
\* the store operation, whose new ObjectId(id) throws into the catch block.
IdFails(id) == Len(id) # IdLength \/ ObjectIdThrows(id)

RefuseId(id) ==
  /\ IF Len(id) # IdLength
     THEN /\ res' = Response(400, FALSE, "Invalid RSVP ID format", <<>>, Null)
          /\ dbCalls' = <<>>
     ELSE /\ res' = InternalServerError
          /\ dbCalls' = <<"connectToDatabase">>
  /\ UNCHANGED <<store, now>>

\* GET /api/rsvps/{id}
GetById(id) ==
  /\ Route("GET", id, EmptyObj)
  /\ IF IdFails(id) THEN RefuseId(id) ELSE handleGet(id)

\* PUT /api/rsvps/{id}
PutById(id, body) ==
  /\ Route("PUT", id, body)
  /\ IF IdFails(id) THEN RefuseId(id) ELSE handlePut(id, body)

\* DELETE /api/rsvps/{id}
DeleteById(id) ==
  /\ Route("DELETE", id, EmptyObj)
  /\ IF IdFails(id) THEN RefuseId(id) ELSE handleDelete(id)

----------------------------------------------------------------------------
(* getRsvps, getRsvpByEmail and getRsvpStats of rsvpService.js, and the     *)
(* handlers of index.js (GET), stats.js and check-email.js.                *)

\* A GET request with its query parameters.
Query(method, path, query) ==
  [method |-> method, path |-> path, id |-> <<>>, body |-> EmptyObj,
   query |-> query]

DigitValue ==
  [c \in {"0", "1", "2", "3", "4", "5", "6", "7", "8", "9"} |->
     CHOOSE n \in 0..9 : ToString(n) = c]

\* parseInt(s) || 0 for a string that starts with digits, or with a character
\* that is neither a digit, a sign nor white space (parseInt gives NaN, which
\* is falsy)
RECURSIVE ParseIntOrZero(_, _)
ParseIntOrZero(s, acc) ==
  IF s = <<>> \/ Head(s) \notin DOMAIN DigitValue THEN acc
  ELSE ParseIntOrZero(Tail(s), 10 * acc + DigitValue[Head(s)])

\* The filter handleGet builds: {attending: attending === 'true'} or {}.
handleGetFilter(query) ==
  IF Present(query, "attending")
  THEN [attending |-> Bool(Get(query, "attending") = Str(<<"t", "r", "u", "e">>))]
  ELSE EmptyObj

\* options.limit || 0, options.limit being parseInt(limit) when limit is truthy
handleGetLimit(query) ==
  IF Truthy(Get(query, "limit")) THEN ParseIntOrZero(Get(query, "limit").v, 0)
  ELSE 0

\* find(filter): the documents whose fields equal every value of the filter.
find(coll, filter) ==
  SelectSeq(coll, LAMBDA d : \A k \in DOMAIN filter : Get(d, k) = filter[k])

\* sort({createdAt: -1}): the orders the sort may produce; documents with
\* equal createdAt come in an order the store does not promise.
sortNewestFirst(docs) ==
  {[i \in 1..Len(docs) |-> docs[p[i]]] :
     p \in {q \in [1..Len(docs) -> 1..Len(docs)] :
              /\ \A i, j \in 1..Len(docs) : q[i] = q[j] => i = j
              /\ \A i, j \in 1..Len(docs) :
                   i < j => docs[q[i]]["createdAt"].v >= docs[q[j]]["createdAt"].v}}

\* Mutant of limit: the limit is ignored.
limitIgnored(docs, n) == docs

\* limit(n): the first n documents, all of them when n is 0.
limit(docs, n) ==
  IF n = 0 \/ n >= Len(docs) THEN docs ELSE SubSeq(docs, 1, n)

\* The arrays getRsvps(filter, {limit: n}) may return.
getRsvps(coll, filter, n) ==
  {limit(docs, n) : docs \in sortNewestFirst(find(coll, filter))}

\* Mutant of getRsvpByEmail: the first document is returned, whatever its email.
getRsvpByEmailFirst(coll, email) == IF coll = <<>> THEN Null ELSE coll[1]

\* getRsvpByEmail(email)
getRsvpByEmail(coll, email) == findOne(coll, "email", Str(toLowerCase(email)))

\* Mutant of CondTrue: the condition is taken to hold for every document.
CondAlways(v) == TRUE

\* $cond: ['$attending', a, b] takes a unless the field is missing, null,
\* false or 0.
CondTrue(v) == v.t \notin {"undefined", "null"} /\ v # Bool(FALSE) /\ v # Num(0)

\* $cond: ['$attending', '$numberOfGuests', 0]; $sum skips what is no number.
GuestsCounted(d) ==
  IF CondTrue(Get(d, "attending")) /\ Get(d, "numberOfGuests").t = "number"
  THEN Get(d, "numberOfGuests").v ELSE 0

\* totalGuests: {$sum: {$cond: ['$attending', '$numberOfGuests', 0]}}
RECURSIVE SumGuests(_)
SumGuests(coll) ==
  IF coll = <<>> THEN 0 ELSE GuestsCounted(Head(coll)) + SumGuests(Tail(coll))

\* getRsvpStats(): the one group of the aggregation, or the default.
getRsvpStats(coll) ==
  IF coll = <<>>
  THEN [total |-> 0, attending |-> 0, notAttending |-> 0, totalGuests |-> 0]
  ELSE [_id |-> Null,
        total |-> Len(coll),
        attending |->
          Cardinality({i \in 1..Len(coll) : CondTrue(Get(coll[i], "attending"))}),
        notAttending |->
          Cardinality({i \in 1..Len(coll) : ~CondTrue(Get(coll[i], "attending"))}),
        totalGuests |-> SumGuests(coll)]

\* GET /api/rsvps: handler and handleGet of index.js.
ListRsvps(query) ==
  /\ Idle
  /\ served < MaxRequests
  /\ served' = served + 1
  /\ req' = Query("GET", "/api/rsvps", query)
  /\ \E rsvps \in getRsvps(store, handleGetFilter(query), handleGetLimit(query)) :
       res' = [status |-> 200, success |-> TRUE, count |-> Len(rsvps),
               data |-> rsvps]
  /\ dbCalls' = <<"connectToDatabase", "find">>
  /\ UNCHANGED <<store, nextId, now, arg, ret, calls, conn, page>>

\* GET /api/rsvps/stats: handler of stats.js.
GetStats ==
  /\ Idle
  /\ served < MaxRequests
  /\ served' = served + 1
  /\ req' = Query("GET", "/api/rsvps/stats", EmptyObj)
  /\ res' = Response(200, TRUE, "", <<>>, getRsvpStats(store))
  /\ dbCalls' = <<"connectToDatabase", "aggregate">>
  /\ UNCHANGED <<store, nextId, now, arg, ret, calls, conn, page>>

\* GET /api/rsvps/check-email: handler of check-email.js.
CheckEmail(query) ==
  /\ Idle
  /\ served < MaxRequests
  /\ served' = served + 1
  /\ req' = Query("GET", "/api/rsvps/check-email", query)
  /\ IF ~Truthy(Get(query, "email"))
     THEN /\ res' = Response(400, FALSE, "Email parameter is required", <<>>, Null)
          /\ dbCalls' = <<>>
     ELSE LET existingRsvp ==
                getRsvpByEmail(store, trim(toLowerCase(Get(query, "email").v)))
          IN /\ res' = [status |-> 200, success |-> TRUE,
                        exists |-> existingRsvp # Null, rsvp |-> existingRsvp]
             /\ dbCalls' = <<"connectToDatabase", "findOne">>
  /\ UNCHANGED <<store, nextId, now, arg, ret, calls, conn, page>>

\* The default case of the handlers' switch, and the method test of stats.js
\* and check-email.js; [id].js tests the length of the id first.
OtherMethod(method, path, id) ==
  /\ Idle
  /\ served < MaxRequests
  /\ served' = served + 1
  /\ req' = Request(method, path, id, EmptyObj)
  /\ res' = IF path = "/api/rsvps/[id]" /\ Len(id) # IdLength
            THEN Response(400, FALSE, "Invalid RSVP ID format", <<>>, Null)
            ELSE Response(405, FALSE, "Method " \o method \o " Not Allowed",
                          <<>>, Null)
  /\ dbCalls' = <<>>
  /\ UNCHANGED <<store, nextId, now, arg, ret, calls, conn, page>>

\* The response has been sent; the server waits for the next request.
EndRequest ==
  /\ ~Idle
  /\ req' = NoReq
  /\ res' = NoRes
  /\ dbCalls' = <<>>
  /\ UNCHANGED <<store, nextId, now, served, arg, ret, calls, conn, page>>

Next ==
  \/ Tick
  \/ \E body \in PostBodies : HandlePost(body)
  \/ \E id \in IdStrings : GetById(id)
  \/ \E r \in PutRequests : PutById(r[1], r[2])
  \/ \E id \in IdStrings : DeleteById(id)
  \/ \E query \in ListQueries : ListRsvps(query)
  \/ GetStats
  \/ \E query \in EmailQueries : CheckEmail(query)
  \/ \E r \in OtherMethodRequests : OtherMethod(r[1], r[2], r[3])
  \/ EndRequest

Spec == Init /\ [][Next]_vars

----------------------------------------------------------------------------
(* The handlers when the payload is null or the store is unavailable.      *)

\* Requests that reach connectToDatabase, one for each handler.
StoreRequests ==
  { Request("POST", "/api/rsvps", <<>>, BasePayload),
    Request("GET", "/api/rsvps/[id]", GeneratedHex(1), EmptyObj),
    Request("PUT", "/api/rsvps/[id]", GeneratedHex(1), [approved |-> Bool(TRUE)]),
    Request("DELETE", "/api/rsvps/[id]", GeneratedHex(1), EmptyObj),
    Query("GET", "/api/rsvps", EmptyObj),
    Query("GET", "/api/rsvps/stats", EmptyObj),
    Query("GET", "/api/rsvps/check-email", [email |-> Str(EmailB)]) }

\* client.connect() rejects in connectToDatabase: the handler's first store
\* call throws into its catch block.
StoreUnavailable(r) ==
  /\ Idle
  /\ served < MaxRequests
  /\ served' = served + 1
  /\ req' = r
  /\ res' = InternalServerError
  /\ dbCalls' = <<"connectToDatabase rejected">>
  /\ UNCHANGED <<store, nextId, now, arg, ret, calls, conn, page>>

NextFaulty ==
  \/ Next
  \/ HandlePost(Null)
  \/ \E r \in StoreRequests : StoreUnavailable(r)

SpecFaulty == Init /\ [][NextFaulty]_vars

----------------------------------------------------------------------------
(* Two callers in updateRsvp at the same time, on the id of one record.    *)

\* The record the callers update, created by POST /api/rsvps at time 0.
ConcurrentRecord ==
  createRsvpResult(createRsvpObject(BasePayload, 0, 0),
                   ObjectId(GeneratedHex(1)), 0, 0)

\* The updateData of the callers, as handlePut builds them.
ConcurrentUpdates ==
  {handlePutUpdateData(body) :
     body \in {[approved |-> Bool(TRUE), guestName |-> Str(TextBob)],
               [approved |-> Bool(FALSE), attending |-> Bool(FALSE)],
               [email |-> Str(EmailB), attending |-> Bool(TRUE)]}}

Callers == {1, 2}

InitConcurrent ==
  /\ store = <<ConcurrentRecord>>
  /\ nextId = 1
  /\ now = 0
  /\ req = NoReq
  /\ res = NoRes
  /\ dbCalls = <<>>
  /\ served = 0
  /\ arg = NoArg
  /\ ret = NoRet
  /\ calls \in [Callers ->
                  {[pc |-> "called", id |-> GeneratedHex(1), updateData |-> u,
                    set |-> EmptyObj, result |-> Null] :
                     u \in ConcurrentUpdates}]
  /\ conn = NoConn
  /\ page = NoPage

\* await getRsvpCollection() has resolved for caller p.
AwaitCollection(p) ==
  /\ calls[p].pc = "called"
  /\ calls' = [calls EXCEPT ![p].pc = "connected"]
  /\ UNCHANGED <<store, nextId, now, req, res, dbCalls, served, arg, ret, conn, page>>

\* Caller p builds {$set: {...updateData, updatedAt: new Date()}} and sends
\* findOneAndUpdate to the store.
SendUpdate(p) ==
  /\ calls[p].pc = "connected"
  /\ calls' = [calls EXCEPT
                 ![p].pc = "sent",
                 ![p].set = ("updatedAt" :> Date(now)) @@ calls[p].updateData]
  /\ UNCHANGED <<store, nextId, now, req, res, dbCalls, served, arg, ret, conn, page>>

\* Mutant of ApplyUpdate: the store writes back the document as it was when
\* the callers started, with the caller's fields set.
ApplyUpdateToSnapshot(p) ==
  /\ calls[p].pc = "sent"
  /\ store' = <<calls[p].set @@ ConcurrentRecord>>
  /\ calls' = [calls EXCEPT ![p].pc = "returned",
                            ![p].result = getRsvpById(store', calls[p].id)]
  /\ UNCHANGED <<nextId, now, req, res, dbCalls, served, arg, ret, conn, page>>

\* The store applies the findOneAndUpdate of caller p, one document operation,
\* and returns the document after it.
ApplyUpdate(p) ==
  /\ calls[p].pc = "sent"
  /\ store' = findOneAndUpdate(store, "_id", ObjectIdFrom(calls[p].id),
                               calls[p].set)
  /\ calls' = [calls EXCEPT ![p].pc = "returned",
                            ![p].result = getRsvpById(store', calls[p].id)]
  /\ UNCHANGED <<nextId, now, req, res, dbCalls, served, arg, ret, conn, page>>

NextConcurrent ==
  \/ Tick
  \/ \E p \in Callers : AwaitCollection(p)
  \/ \E p \in Callers : SendUpdate(p)
  \/ \E p \in Callers : ApplyUpdate(p)

SpecConcurrent == InitConcurrent /\ [][NextConcurrent]_vars

----------------------------------------------------------------------------
(* Direct calls of validateRsvp on the inputs of ValidateInputs.           *)

InitValidate ==
  /\ store = <<>>
  /\ nextId = 0
  /\ now = 0
  /\ req = NoReq
  /\ res = NoRes
  /\ dbCalls = <<>>
  /\ served = 0
  /\ arg \in ValidateInputs
  /\ ret = NoRet
  /\ calls = <<>>
  /\ conn = NoConn
  /\ page = NoPage

CallValidate ==
  /\ ret = NoRet
  /\ ret' = validateRsvp(arg)
  /\ UNCHANGED <<store, nextId, now, req, res, dbCalls, served, arg, calls, conn, page>>

NextValidate == CallValidate

SpecValidate == InitValidate /\ [][NextValidate]_vars

----------------------------------------------------------------------------
(* Direct calls of createRsvpObject, on an input and then on its own result.*)

TextTwoSpaces == <<" ", " ", "A">>

NormalizeInputs ==
  [name : {Undefined, Str(TextSam), Str(TextTwoSpaces), Num(5)},
   email : {Undefined, Str(EmailB), Str(EmailSpace)},
   attending : {Undefined, Bool(TRUE), Num(0), Str(TextAl)},
   dietaryRestrictions :
     {Undefined, Null, Obj([vegan |-> Num(1), other |-> Str(TextSam)]),
      Obj([other |-> Num(5)])},
   approved : {Undefined, Bool(TRUE)},
   createdAt : {Undefined, Null, Date(0)}]

InitNormalize ==
  /\ store = <<>>
  /\ nextId = 0
  /\ now = 0
  /\ req = NoReq
  /\ res = NoRes
  /\ dbCalls = <<>>
  /\ served = 0
  /\ arg \in NormalizeInputs
  /\ ret = NoRet
  /\ calls = <<>>
  /\ conn = NoConn
  /\ page = NoPage

\* createRsvpObject(arg) now, and createRsvpObject of its result at time t.
CallNormalize ==
  /\ ret = NoRet
  /\ IF createRsvpObjectThrows(arg)
     THEN ret' = [threw |-> TRUE] /\ UNCHANGED now
     ELSE \E t \in now..MaxTime :
            LET once == createRsvpObject(arg, now, now) IN
            /\ now' = t
            /\ ret' = [threw |-> createRsvpObjectThrows(once),
                       once |-> once,
                       twice |-> createRsvpObject(once, t, t)]
  /\ UNCHANGED <<store, nextId, req, res, dbCalls, served, arg, calls, conn, page>>

NextNormalize == CallNormalize \/ Tick

SpecNormalize == InitNormalize /\ [][NextNormalize]_vars

----------------------------------------------------------------------------
(* connectToDatabase of lib/mongodb.js, called by several requests at the  *)
(* same time.  The file exists in two versions: the later one pings the    *)
(* cached client before it returns it (conn.pings).                        *)

\* connectToDatabase calls one caller makes in one behaviour.
MaxCalls == 2

\* The MongoClient created c-th, and the Db handle client.db(MONGODB_DB).
Client(c) == [t |-> "client", v |-> c]
Db(c) == [t |-> "db", v |-> c]

InitConnect ==
  /\ store = <<>>
  /\ nextId = 0
  /\ now = 0
  /\ req = NoReq
  /\ res = NoRes
  /\ dbCalls = <<>>
  /\ served = 0
  /\ arg = NoArg
  /\ ret = NoRet
  /\ calls = [p \in Callers |->
                [pc |-> "idle", n |-> 0, client |-> 0, result |-> Null]]
  /\ conn \in {[NoConn EXCEPT !.pings = b] : b \in BOOLEAN}
  /\ page = NoPage

\* new MongoClient(...) and the call of client.connect(), up to its await.
NewClient(p) ==
  [calls EXCEPT ![p].pc = "connecting",
                ![p].n = calls[p].n + 1,
                ![p].client = Len(conn.clients) + 1]

\* Caller p enters connectToDatabase and runs to its first await or return:
\* the cached pair is returned (or pinged), or a client is created.
Call(p) ==
  /\ calls[p].pc \in {"idle", "returned", "threw"}
  /\ calls[p].n < MaxCalls
  /\ IF Truthy(conn.cachedClient) /\ Truthy(conn.cachedDb)
     THEN /\ calls' = [calls EXCEPT
                         ![p].pc = IF conn.pings THEN "pinging" ELSE "returned",
                         ![p].n = calls[p].n + 1,
                         ![p].client = conn.cachedClient.v,
                         ![p].result = IF conn.pings THEN Null
                                       ELSE [client |-> conn.cachedClient,
                                             db |-> conn.cachedDb]]
          /\ UNCHANGED conn
     ELSE /\ calls' = NewClient(p)
          /\ conn' = [conn EXCEPT !.clients = Append(conn.clients, "connecting")]
  /\ UNCHANGED <<serverVars, page>>

\* The ping of caller p resolves: the function returns the cache as it is
\* read after the await.
PingResolves(p) ==
  /\ calls[p].pc = "pinging"
  /\ calls' = [calls EXCEPT ![p].pc = "returned",
                            ![p].result = [client |-> conn.cachedClient,
                                           db |-> conn.cachedDb]]
  /\ UNCHANGED <<serverVars, conn, page>>

\* The ping of caller p rejects: the catch block clears the cache and the
\* function goes on to create a client.
PingRejects(p) ==
  /\ calls[p].pc = "pinging"
  /\ conn' = [conn EXCEPT
                !.cachedClient = Null,
                !.cachedDb = Null,
                !.clients = Append([conn.clients EXCEPT
                                      ![calls[p].client] = "stale"],
                                   "connecting")]
  /\ calls' = [NewClient(p) EXCEPT ![p].n = calls[p].n]
  /\ UNCHANGED <<serverVars, page>>

\* client.connect() of caller p resolves: the client and its db are cached
\* and returned.
ConnectResolves(p) ==
  /\ calls[p].pc = "connecting"
  /\ conn' = [conn EXCEPT !.cachedClient = Client(calls[p].client),
                          !.cachedDb = Db(calls[p].client),
                          !.clients[calls[p].client] = "connected"]
  /\ calls' = [calls EXCEPT ![p].pc = "returned",
                            ![p].result = [client |-> conn'.cachedClient,
                                           db |-> conn'.cachedDb]]
  /\ UNCHANGED <<serverVars, page>>

\* Mutant of ConnectRejects: the client is cached before connect() settles.
ConnectRejectsCached(p) ==
  /\ calls[p].pc = "connecting"
  /\ conn' = [conn EXCEPT !.cachedClient = Client(calls[p].client),
                          !.clients[calls[p].client] = "failed"]
  /\ calls' = [calls EXCEPT ![p].pc = "threw", ![p].result = Null]
  /\ UNCHANGED <<serverVars, page>>

\* client.connect() of caller p rejects: the function throws and the cache
\* is not written.
ConnectRejects(p) ==
  /\ calls[p].pc = "connecting"
  /\ conn' = [conn EXCEPT !.clients[calls[p].client] = "failed"]
  /\ calls' = [calls EXCEPT ![p].pc = "threw", ![p].result = Null]
  /\ UNCHANGED <<serverVars, page>>

NextConnect ==
  \/ \E p \in Callers : Call(p)
  \/ \E p \in Callers : PingResolves(p)
  \/ \E p \in Callers : PingRejects(p)
  \/ \E p \in Callers : ConnectResolves(p)
  \/ \E p \in Callers : ConnectRejects(p)

SpecConnect == InitConnect /\ [][NextConnect]_vars

----------------------------------------------------------------------------
(* Two requests on /api/rsvps/[id] served at the same time: each handler   *)
(* runs from one await to the next while the other is suspended.           *)

\* The requests in flight: PUT with each body of PutBodies, and DELETE, all
\* on the id of the one stored record.
InFlight ==
  {Request("PUT", "/api/rsvps/[id]", GeneratedHex(1), body) :
     body \in PutBodies}
    \cup {Request("DELETE", "/api/rsvps/[id]", GeneratedHex(1), EmptyObj)}

InitRace ==
  /\ store = <<ConcurrentRecord>>
  /\ nextId = 1
  /\ now = 0
  /\ req = NoReq
  /\ res = NoRes
  /\ dbCalls = <<>>
  /\ served = 0
  /\ arg = NoArg
  /\ ret = NoRet
  /\ calls \in [Callers -> {[pc |-> "received", req |-> r, res |-> NoRes] :
                              r \in InFlight}]
  /\ conn = NoConn
  /\ page = NoPage

\* handlePut from the result of getRsvpById to await updateRsvp: the
\* response it sends on the way, NoRes when it goes on to the update.
handlePutRefusal(existingRsvp, body) ==
  IF existingRsvp = Null
  THEN Response(404, FALSE, "RSVP not found", <<>>, Null)
  ELSE IF handlePutThrows(body) THEN InternalServerError
  ELSE IF handlePutBadEmail(body)
  THEN Response(400, FALSE, "Invalid email format", <<>>, Null)
  ELSE IF DOMAIN handlePutUpdateData(body) = {}
  THEN Response(400, FALSE, "No fields to update", <<>>, Null)
  ELSE NoRes

\* await getRsvpById(id) of handlePut resolves for request p; the handler
\* runs on to its response or to the call of updateRsvp.
PutFindsRecord(p) ==
  /\ calls[p].pc = "received"
  /\ calls[p].req.method = "PUT"
  /\ LET refusal == handlePutRefusal(getRsvpById(store, calls[p].req.id),
                                     calls[p].req.body)
     IN calls' = [calls EXCEPT
                    ![p].pc = IF refusal = NoRes THEN "updating" ELSE "answered",
                    ![p].res = refusal]
  /\ UNCHANGED <<serverVars, conn, page>>

\* await updateRsvp(id, updateData) of handlePut resolves for request p and
\* its result is sent with status 200.
PutSendsUpdated(p) ==
  /\ calls[p].pc = "updating"
  /\ store' = updateRsvp(store, calls[p].req.id,
                         handlePutUpdateData(calls[p].req.body), now)
  /\ calls' = [calls EXCEPT
                 ![p].pc = "answered",
                 ![p].res = Response(200, TRUE, "", <<>>,
                                     getRsvpById(store', calls[p].req.id))]
  /\ UNCHANGED <<nextId, now, req, res, dbCalls, served, arg, ret, conn, page>>

\* handleDelete for request p: deleteRsvp and the response.
DeleteSends(p) ==
  /\ calls[p].pc = "received"
  /\ calls[p].req.method = "DELETE"
  /\ store' = deleteRsvp(store, calls[p].req.id)
  /\ calls' = [calls EXCEPT
                 ![p].pc = "answered",
                 ![p].res = IF deleteRsvpResult(store, calls[p].req.id)
                            THEN Response(200, TRUE, "", <<>>, Null)
                            ELSE Response(404, FALSE, "RSVP not found",
                                          <<>>, Null)]
  /\ UNCHANGED <<nextId, now, req, res, dbCalls, served, arg, ret, conn, page>>

NextRace ==
  \/ Tick
  \/ \E p \in Callers : PutFindsRecord(p)
  \/ \E p \in Callers : PutSendsUpdated(p)
  \/ \E p \in Callers : DeleteSends(p)

SpecRace == InitRace /\ [][NextRace]_vars

----------------------------------------------------------------------------
(* handleSubmit of components/public/RSVP/RSVPForm.js, run by two guests   *)
(* at the same time against the handlers of check-email.js, [id].js and    *)
(* index.js.  Each flow runs from one await to the next; each request is   *)
(* served by its handler in one step.                                      *)

\* dietaryRestrictions with every box clear but none.
DietNone(none) ==
  Obj([k \in DietFlags \cup {"other"} |->
         IF k = "other" THEN Str(<<>>) ELSE Bool(k = "none" /\ none)])

\* formData as the form holds it when the browser lets it be submitted.
FormData(name, email, attending) ==
  [name |-> Str(name), email |-> Str(email), phone |-> Str(TextPhone),
   attending |-> Bool(attending), guests |-> Bool(FALSE),
   guestName |-> Str(<<>>), dietaryRestrictions |-> DietNone(FALSE),
   accommodations |-> Bool(FALSE), accommodationsText |-> Str(<<>>),
   song |-> Str(<<>>), message |-> Str(<<>>)]

\* The forms submitted: a name of one space passes the required attribute.
FormInputs ==
  {FormData(name, email, attending) :
     name \in {TextAl, Blank}, email \in {EmailA, EmailUpperA},
     attending \in BOOLEAN}

\* submissionData of handleSubmit.
submissionData(formData) ==
  IF formData.attending = Bool(FALSE)
  THEN [formData EXCEPT !.guests = Bool(FALSE),
                        !.guestName = Str(<<>>),
                        !.dietaryRestrictions = DietNone(TRUE),
                        !.accommodations = Bool(FALSE),
                        !.accommodationsText = Str(<<>>),
                        !.song = Str(<<>>)]
  ELSE formData

\* What the catch block of handleSubmit puts in errors.
MsgSubmitFailed == "Failed to submit RSVP. Please try again."

InitForm ==
  /\ store \in {<<>>, <<ConcurrentRecord>>}
  /\ nextId = Len(store)
  /\ now = 0
  /\ req = NoReq
  /\ res = NoRes
  /\ dbCalls = <<>>
  /\ served = 0
  /\ arg = NoArg
  /\ ret = NoRet
  /\ calls \in [Callers ->
                  {[pc |-> "editing", formData |-> f, checkResult |-> NoRes,
                    errors |-> <<>>, isSubmitting |-> FALSE,
                    submitSuccess |-> FALSE] : f \in FormInputs}]
  /\ conn = NoConn
  /\ page = NoPage

\* handleSubmit up to the fetch of check-email.
SubmitForm(p) ==
  /\ calls[p].pc = "editing"
  /\ calls' = [calls EXCEPT ![p].pc = "checking",
                            ![p].errors = <<>>,
                            ![p].isSubmitting = TRUE]
  /\ UNCHANGED <<serverVars, conn, page>>

\* The answer of check-email.js to ?email=...
checkEmailResponse(coll, email) ==
  IF ~Truthy(email)
  THEN [status |-> 400, success |-> FALSE, exists |-> FALSE, rsvp |-> Null]
  ELSE LET existingRsvp == getRsvpByEmail(coll, trim(toLowerCase(email.v)))
       IN [status |-> 200, success |-> TRUE,
           exists |-> existingRsvp # Null, rsvp |-> existingRsvp]

\* check-email answers flow p.  With an existing RSVP the guest confirms,
\* and the DELETE is sent, or cancels, and the flow leaves the page; with
\* none the POST is sent.
CheckAnswered(p) ==
  /\ calls[p].pc = "checking"
  /\ LET checkResult == checkEmailResponse(store, calls[p].formData.email)
     IN \E confirmed \in BOOLEAN :
          calls' = [calls EXCEPT
                      ![p].checkResult = checkResult,
                      ![p].pc = IF checkResult.success /\ checkResult.exists
                                THEN IF confirmed THEN "deleting" ELSE "left"
                                ELSE "posting",
                      ![p].isSubmitting =
                         ~(checkResult.success /\ checkResult.exists
                             /\ ~confirmed)]
  /\ UNCHANGED <<serverVars, conn, page>>

\* DELETE /api/rsvps/{checkResult.rsvp._id} answers flow p: the POST is
\* sent when the answer is ok, the catch block runs when it is not.
DeleteAnswered(p) ==
  /\ calls[p].pc = "deleting"
  /\ LET id == calls[p].checkResult.rsvp["_id"].v
     IN /\ store' = deleteRsvp(store, id)
        /\ calls' = IF deleteRsvpResult(store, id)
                    THEN [calls EXCEPT ![p].pc = "replacing"]
                    ELSE [calls EXCEPT ![p].pc = "failed",
                                       ![p].errors = <<MsgSubmitFailed>>,
                                       ![p].isSubmitting = FALSE]
  /\ UNCHANGED <<nextId, now, req, res, dbCalls, served, arg, ret, conn, page>>

\* handleSubmit from the answer `result` of the POST to its end.
AfterPost(p, result) ==
  IF result.success
  THEN [calls EXCEPT ![p].pc = "done",
                     ![p].submitSuccess = TRUE,
                     ![p].isSubmitting = FALSE,
                     ![p].formData = [name |-> Str(<<>>), email |-> Str(<<>>),
                                      phone |-> Str(<<>>), attending |-> Null,
                                      guests |-> Null, guestName |-> Str(<<>>),
                                      dietaryRestrictions |-> DietNone(FALSE),
                                      accommodations |-> Null,
                                      accommodationsText |-> Str(<<>>),
                                      song |-> Str(<<>>), message |-> Str(<<>>)]]
  ELSE [calls EXCEPT ![p].pc = "failed",
                     ![p].isSubmitting = FALSE,
                     ![p].errors = IF result.errors # <<>> THEN result.errors
                                   ELSE <<result.error>>]

\* POST /api/rsvps with submissionData answers flow p: handlePost of
\* index.js, then the rest of handleSubmit.
PostAnswered(p) ==
  /\ calls[p].pc \in {"posting", "replacing"}
  /\ LET body == submissionData(calls[p].formData)
         validation == validateRsvp(body)
         rsvpData == createRsvpObject(body, now, now)
         oid == ObjectId(GeneratedHex(nextId + 1))
     IN IF ~validation.isValid
        THEN /\ calls' = AfterPost(p, Response(400, FALSE, "Validation failed",
                                               validation.errors, Null))
             /\ UNCHANGED <<store, nextId>>
        ELSE IF createRsvpObjectThrows(body)
        THEN /\ calls' = AfterPost(p, InternalServerError)
             /\ UNCHANGED <<store, nextId>>
        ELSE /\ nextId < MaxIds
             /\ store' = createRsvp(store, rsvpData, oid, now, now)
             /\ nextId' = nextId + 1
             /\ calls' = AfterPost(p, Response(201, TRUE, "", <<>>,
                                     createRsvpResult(rsvpData, oid, now, now)))
  /\ UNCHANGED <<now, req, res, dbCalls, served, arg, ret, conn, page>>

\* The POST of flow p meets an unavailable store: connectToDatabase rejects
\* in createRsvp and the handler's catch block answers 500.
PostUnavailable(p) ==
  /\ calls[p].pc \in {"posting", "replacing"}
  /\ validateRsvp(submissionData(calls[p].formData)).isValid
  /\ calls' = AfterPost(p, InternalServerError)
  /\ UNCHANGED <<serverVars, conn, page>>

NextForm ==
  \/ \E p \in Callers : SubmitForm(p)
  \/ \E p \in Callers : CheckAnswered(p)
  \/ \E p \in Callers : DeleteAnswered(p)
  \/ \E p \in Callers : PostAnswered(p)
  \/ \E p \in Callers : PostUnavailable(p)

SpecForm == InitForm /\ [][NextForm]_vars

----------------------------------------------------------------------------
(* AdminRSVPPage of pages/admin/guests.js: the list held in the state      *)
(* rsvps, and handleApprove, handleRevoke and handleDelete, each of which  *)
(* closes over the rsvps of the render in which its button was clicked.    *)

Digits == <<"0", "1", "2", "3", "4", "5", "6", "7", "8", "9">>

\* JSON.stringify of a value: an ObjectId becomes its hex string and a Date
\* its ISO string, written here as "T" and the clock value.
toJSON(v) ==
  CASE v.t = "objectid" -> Str(v.v)
    [] v.t = "date" -> Str(<<"T", Digits[v.v + 1]>>)
    [] OTHER -> v

\* A document as the page receives it in the body of a response.
jsonRow(doc) == [k \in DOMAIN doc |-> toJSON(doc[k])]

\* The two RSVPs of the collection, as POST /api/rsvps stored them.
AdminRecords ==
  <<ConcurrentRecord,
    createRsvpResult(createRsvpObject([BasePayload EXCEPT !.email = Str(EmailB)],
                                      0, 0),
                     ObjectId(GeneratedHex(2)), 0, 0)>>

\* The handlers of the page and the request body each sends.
AdminActions == {"handleApprove", "handleRevoke", "handleDelete"}

\* The state of the page when it is mounted, over a collection whose records
\* are approved or not.
InitAdmin ==
  /\ store \in {[i \in 1..2 |-> [AdminRecords[i] EXCEPT !["approved"] = Bool(a[i])]] :
                  a \in [1..2 -> BOOLEAN]}
  /\ nextId = 2
  /\ now = 0
  /\ req = NoReq
  /\ res = NoRes
  /\ dbCalls = <<>>
  /\ served = 0
  /\ arg = NoArg
  /\ ret = NoRet
  /\ calls = [p \in Callers |->
                [pc |-> "idle", handler |-> "", id |-> <<>>, rsvps |-> <<>>,
                 data |-> NoRes]]
  /\ conn = NoConn
  /\ page = [component |-> "AdminRSVPPage", rsvps |-> <<>>, loading |-> TRUE]

\* fetchRsvps, called by the effect on mount: GET /api/rsvps is served and
\* its data become the list.
fetchRsvps ==
  /\ page.loading
  /\ \E rsvps \in getRsvps(store, EmptyObj, 0) :
       page' = [page EXCEPT !.rsvps = [i \in 1..Len(rsvps) |-> jsonRow(rsvps[i])],
                            !.loading = FALSE]
  /\ UNCHANGED <<serverVars, calls, conn>>

\* A button of a displayed row is clicked: the handler of the current
\* render starts with that render's rsvps and runs to its fetch.  The
\* confirm() of handleDelete may be declined, and the handler returns.
ClickAction(p) ==
  /\ calls[p].pc = "idle"
  /\ ~page.loading
  /\ \E handler \in AdminActions, i \in 1..Len(page.rsvps), confirmed \in BOOLEAN :
       /\ handler # "handleDelete" => confirmed
       /\ calls' = [calls EXCEPT
                      ![p] = [pc |-> IF confirmed THEN "sent" ELSE "declined",
                              handler |-> handler,
                              id |-> page.rsvps[i]["_id"].v,
                              rsvps |-> page.rsvps,
                              data |-> NoRes]]
  /\ UNCHANGED <<serverVars, conn, page>>

\* The request of handler p is served by handlePut or handleDelete of
\* [id].js.
ServeAction(p) ==
  /\ calls[p].pc = "sent"
  /\ LET id == calls[p].id
         body == [approved |-> Bool(calls[p].handler = "handleApprove")]
     IN IF calls[p].handler = "handleDelete"
        THEN /\ store' = deleteRsvp(store, id)
             /\ calls' = [calls EXCEPT
                            ![p].pc = "answered",
                            ![p].data = IF deleteRsvpResult(store, id)
                                        THEN Response(200, TRUE, "", <<>>, Null)
                                        ELSE Response(404, FALSE, "RSVP not found",
                                                      <<>>, Null)]
        ELSE IF getRsvpById(store, id) = Null
        THEN /\ store' = store
             /\ calls' = [calls EXCEPT
                            ![p].pc = "answered",
                            ![p].data = Response(404, FALSE, "RSVP not found",
                                                 <<>>, Null)]
        ELSE /\ store' = updateRsvp(store, id, handlePutUpdateData(body), now)
             /\ calls' = [calls EXCEPT
                            ![p].pc = "answered",
                            ![p].data = Response(200, TRUE, "", <<>>,
                                          jsonRow(getRsvpById(store', id)))]
  /\ UNCHANGED <<nextId, now, req, res, dbCalls, served, arg, ret, conn, page>>

\* The list handler p passes to setRsvps: rsvps.map(...) or
\* rsvps.filter(...) over the rsvps the handler closed over.
setRsvpsFrom(p) ==
  IF calls[p].handler = "handleDelete"
  THEN SelectSeq(calls[p].rsvps, LAMBDA rsvp : rsvp["_id"] # Str(calls[p].id))
  ELSE [i \in 1..Len(calls[p].rsvps) |->
          IF calls[p].rsvps[i]["_id"] = Str(calls[p].id)
          THEN [calls[p].rsvps[i] EXCEPT
                  !["approved"] = Bool(calls[p].handler = "handleApprove")]
          ELSE calls[p].rsvps[i]]

\* The response reaches handler p: on success the list is set, otherwise an
\* alert is shown.
ResumeAction(p) ==
  /\ calls[p].pc = "answered"
  /\ calls' = [calls EXCEPT ![p].pc = "returned"]
  /\ page' = IF calls[p].data.success
             THEN [page EXCEPT !.rsvps = setRsvpsFrom(p)]
             ELSE page
  /\ UNCHANGED <<serverVars, conn>>

NextAdmin ==
  \/ fetchRsvps
  \/ \E p \in Callers : ClickAction(p)
  \/ \E p \in Callers : ServeAction(p)
  \/ \E p \in Callers : ResumeAction(p)

SpecAdmin == InitAdmin /\ [][NextAdmin]_vars

----------------------------------------------------------------------------
(* ProtectedPage of components/admin/ProtectedPage.js: what it renders for *)
(* the values useAuth and useUser give it, and the effect that redirects.  *)

\* Renders of the page in one behaviour, the one on mount included.
MaxRenders == 4

EmailChristan ==
  <<"c", "h", "r", "i", "s", "t", "a", "n", ".", "p", "r", "i", "c", "e",
    "2", "0", "1", "0", "@", "g", "m", "a", "i", "l", ".", "c", "o", "m">>

EmailDesigns ==
  <<"d", "e", "s", "i", "g", "n", "s", "b", "y", "j", "m", "j", "@", "g",
    "m", "a", "i", "l", ".", "c", "o", "m">>

WHITELIST == {EmailChristan, EmailDesigns}

\* The user objects useUser may give for a signed-in session: not yet
\* there, without a primary email, and with the emails of two listed
\* admins (as listed and capitalised) and of accounts that are not listed.
Users ==
  {Undefined, Obj([primaryEmailAddress |-> Null])}
    \cup {Obj([primaryEmailAddress |-> Obj([emailAddress |-> Str(e)])]) :
            e \in {EmailChristan,
                   [EmailChristan EXCEPT ![1] = "C"],
                   [EmailDesigns EXCEPT ![1] = "D"],
                   <<" ">> \o EmailChristan,
                   EmailA}}

\* The values of useAuth() and useUser(): the provider still loading, no
\* session, and a session of each user.
Sessions ==
  {[isLoaded |-> FALSE, userId |-> Undefined, user |-> Undefined],
   [isLoaded |-> TRUE, userId |-> Null, user |-> Null]}
    \cup {[isLoaded |-> TRUE, userId |-> Str(<<"u">>), user |-> u] : u \in Users}

\* Mutant of isWhitelisted: every account with an email is let in.
isWhitelistedAnyEmail(user) ==
  Truthy(OptGet(OptGet(user, "primaryEmailAddress"), "emailAddress"))

\* userEmail && WHITELIST.includes(userEmail.toLowerCase())
isWhitelisted(user) ==
  LET userEmail == OptGet(OptGet(user, "primaryEmailAddress"), "emailAddress")
  IN Truthy(userEmail) /\ toLowerCase(userEmail.v) \in WHITELIST

\* What ProtectedPage returns for the hook values h.
ProtectedPageRender(h) ==
  IF ~h.isLoaded THEN "spinner"
  ELSE IF ~Truthy(h.userId) THEN "null"
  ELSE IF ~isWhitelisted(h.user) THEN "AccessDeniedMessage"
  ELSE "children"

\* The page is mounted while the provider is loading.
InitProtected ==
  /\ store = <<>>
  /\ nextId = 0
  /\ now = 0
  /\ req = NoReq
  /\ res = NoRes
  /\ dbCalls = <<>>
  /\ served = 0
  /\ arg = NoArg
  /\ ret = NoRet
  /\ calls = <<>>
  /\ conn = NoConn
  /\ page = [component |-> "ProtectedPage",
             isLoaded |-> FALSE, userId |-> Undefined, user |-> Undefined,
             rendered |-> <<"spinner">>, effectPending |-> TRUE,
             route |-> "/admin"]

\* The provider gives new values (it has loaded, the user has signed in or
\* out): the page renders again, and the effect is scheduled when one of
\* its dependencies changed.
SessionChanges(h) ==
  /\ page.route = "/admin"
  /\ Len(page.rendered) < MaxRenders
  /\ h.isLoaded
  /\ h # [isLoaded |-> page.isLoaded, userId |-> page.userId, user |-> page.user]
  /\ page' = [page EXCEPT
                !.isLoaded = h.isLoaded,
                !.userId = h.userId,
                !.user = h.user,
                !.rendered = Append(page.rendered, ProtectedPageRender(h)),
                !.effectPending = page.effectPending
                                    \/ h.isLoaded # page.isLoaded
                                    \/ h.userId # page.userId]
  /\ UNCHANGED <<serverVars, calls, conn>>

\* The effect runs after the render: router.push('/admin/login') when the
\* provider has loaded and nobody is signed in.
RunEffect ==
  /\ page.route = "/admin"
  /\ page.effectPending
  /\ page' = [page EXCEPT
                !.effectPending = FALSE,
                !.route = IF page.isLoaded /\ ~Truthy(page.userId)
                          THEN "/admin/login" ELSE page.route]
  /\ UNCHANGED <<serverVars, calls, conn>>

NextProtected ==
  \/ \E h \in Sessions : SessionChanges(h)
  \/ RunEffect

SpecProtected == InitProtected /\ [][NextProtected]_vars

----------------------------------------------------------------------------
(* useToast and the auto-dismiss effect of ToastNotification, in           *)
(* components/public/ToastNotification.js, as RSVPForm mounts them.  Time  *)
(* is counted in units of 2500 ms; a timer fires when it is due.           *)

\* Largest value of the page's clock.
MaxClock == 4
\* showToast calls in one behaviour.
MaxToasts == 3

\* defaultDuration of useToast and the duration prop RSVPForm passes: 5000.
DefaultDuration == 2

\* The durations showToast is called with; 0 asks for no auto-dismiss.
Durations == {0, 1, DefaultDuration, 3}

InitToast ==
  /\ store = <<>>
  /\ nextId = 0
  /\ now = 0
  /\ req = NoReq
  /\ res = NoRes
  /\ dbCalls = <<>>
  /\ served = 0
  /\ arg = NoArg
  /\ ret = NoRet
  /\ calls = <<>>
  /\ conn = NoConn
  /\ page = [component |-> "useToast",
             toast |-> [visible |-> FALSE, type |-> "success", message |-> ""],
             clock |-> 0,
             timers |-> {},      \* the setTimeout calls of showToast pending
             effectTimer |-> -1, \* when the effect's timer is due, -1 if none
             shows |-> 0,        \* number of showToast calls so far
             shownAt |-> 0,      \* clock and duration of the latest call
             duration |-> 0,
             closed |-> FALSE]   \* the latest toast was closed by hand

\* The auto-dismiss effect after a render: its dependencies are visible,
\* duration and onClose, so it runs (cleanup first) only when visible has
\* changed, and sets a timer when the toast is visible.
effectTimerAfter(visible) ==
  IF visible = page.toast.visible THEN page.effectTimer
  ELSE IF visible /\ DefaultDuration > 0 THEN page.clock + DefaultDuration
  ELSE -1

\* showToast(type, message, duration)
showToast(type, message, duration) ==
  /\ page.shows < MaxToasts
  /\ page' = [page EXCEPT
                !.toast = [visible |-> TRUE, type |-> type, message |-> message],
                !.timers = IF duration > 0
                           THEN page.timers
                                  \cup {[call |-> page.shows + 1,
                                         due |-> page.clock + duration]}
                           ELSE page.timers,
                !.effectTimer = effectTimerAfter(TRUE),
                !.shows = page.shows + 1,
                !.shownAt = page.clock,
                !.duration = duration,
                !.closed = FALSE]
  /\ UNCHANGED <<serverVars, calls, conn>>

\* A timer set by showToast fires: setToast(prev => ({...prev, visible: false}))
showToastTimerFires(timer) ==
  /\ timer \in page.timers
  /\ timer.due = page.clock
  /\ page' = [page EXCEPT !.toast.visible = FALSE,
                          !.timers = page.timers \ {timer},
                          !.effectTimer = effectTimerAfter(FALSE)]
  /\ UNCHANGED <<serverVars, calls, conn>>

\* The timer of the auto-dismiss effect fires: onClose(), which is hideToast.
effectTimerFires ==
  /\ page.effectTimer = page.clock
  /\ page' = [page EXCEPT !.toast.visible = FALSE, !.effectTimer = -1]
  /\ UNCHANGED <<serverVars, calls, conn>>

\* The close button: handleClose calls onClose(), which is hideToast.
hideToast ==
  /\ page.toast.visible
  /\ page' = [page EXCEPT !.toast.visible = FALSE,
                          !.effectTimer = -1,
                          !.closed = TRUE]
  /\ UNCHANGED <<serverVars, calls, conn>>

\* 2500 ms pass; every timer that was due has fired.
Tock ==
  /\ page.clock < MaxClock
  /\ page.effectTimer # page.clock
  /\ \A timer \in page.timers : timer.due # page.clock
  /\ page' = [page EXCEPT !.clock = page.clock + 1]
  /\ UNCHANGED <<serverVars, calls, conn>>

NextToast ==
  \/ \E type \in {"success", "error"}, duration \in Durations :
       showToast(type, "message", duration)
  \/ \E call \in 1..MaxToasts, due \in 0..MaxClock :
       showToastTimerFires([call |-> call, due |-> due])
  \/ effectTimerFires
  \/ hideToast
  \/ Tock

SpecToast == InitToast /\ [][NextToast]_vars

----------------------------------------------------------------------------
(* The animation effect of AnimatedText, AnimatedButton and ImageDisplay:  *)
(* with triggerOnScroll an IntersectionObserver on the element, whose      *)
(* callback schedules the reveal after `delay`; without it a timer set     *)
(* when the effect runs.                                                   *)

\* Times the element crosses the threshold in one behaviour.
MaxCrossings == 4

AnimatedComponents == {"AnimatedText", "AnimatedButton", "ImageDisplay"}

\* The component is mounted with its element out of view and its effect
\* has run: the observer observes the element, or the timer is set.
InitAnimated ==
  /\ store = <<>>
  /\ nextId = 0
  /\ now = 0
  /\ req = NoReq
  /\ res = NoRes
  /\ dbCalls = <<>>
  /\ served = 0
  /\ arg = NoArg
  /\ ret = NoRet
  /\ calls = <<>>
  /\ conn = NoConn
  /\ page \in {[component |-> c,
                triggerOnScroll |-> s,
                mounted |-> TRUE,
                isVisible |-> FALSE,
                hasAnimated |-> FALSE,
                observing |-> s,         \* the observer observes the element
                isIntersecting |-> FALSE,
                timer |-> ~s,            \* the effect's own timer is pending
                timers |-> 0,            \* timers set by the callback pending
                scheduled |-> IF s THEN 0 ELSE 1,  \* reveal timers set so far
                crossings |-> 0] :
                 c \in AnimatedComponents, s \in BOOLEAN}

\* The element crosses the threshold and, when it is observed, the
\* observer's callback runs with the new entry: an intersecting entry sets
\* a reveal timer.  AnimatedText and AnimatedButton then unobserve the
\* element; ImageDisplay tests the hasAnimated of its render.
ObserverCallback ==
  /\ page.crossings < MaxCrossings
  /\ LET entry == [isIntersecting |-> ~page.isIntersecting]
         fires == /\ page.observing
                  /\ entry.isIntersecting
                  /\ page.component = "ImageDisplay" => ~page.hasAnimated
     IN page' = [page EXCEPT
                   !.isIntersecting = entry.isIntersecting,
                   !.crossings = page.crossings + 1,
                   !.timers = IF fires THEN page.timers + 1 ELSE page.timers,
                   !.scheduled = IF fires THEN page.scheduled + 1
                                 ELSE page.scheduled,
                   !.observing = page.observing
                                   /\ (page.component = "ImageDisplay" \/ ~fires)]
  /\ UNCHANGED <<serverVars, calls, conn>>

\* The state after a reveal timer's callback: setIsVisible(true), and in
\* ImageDisplay setHasAnimated(true).  A component that was unmounted keeps
\* its state.
Revealed ==
  IF page.mounted
  THEN [page EXCEPT !.isVisible = TRUE,
                    !.hasAnimated = page.hasAnimated
                                      \/ page.component = "ImageDisplay"]
  ELSE page

\* A timer set by the observer's callback fires after the delay.
RevealTimerFires ==
  /\ page.timers > 0
  /\ page' = [Revealed EXCEPT !.timers = page.timers - 1]
  /\ UNCHANGED <<serverVars, calls, conn>>

\* The timer of an effect without triggerOnScroll fires.  hasAnimated is a
\* dependency of ImageDisplay's effect, so its first change runs the effect
\* again, which sets the timer again.
MountTimerFires ==
  /\ page.timer
  /\ LET again == page.component = "ImageDisplay" /\ ~page.hasAnimated
     IN page' = [Revealed EXCEPT
                   !.timer = again,
                   !.scheduled = IF again THEN page.scheduled + 1
                                 ELSE page.scheduled]
  /\ UNCHANGED <<serverVars, calls, conn>>

\* The component is unmounted: the cleanup clears the effect's own timer or
\* unobserves the element; the timers the callback set stay pending.
Unmount ==
  /\ page.mounted
  /\ page' = [page EXCEPT !.mounted = FALSE,
                          !.timer = FALSE,
                          !.observing = FALSE]
  /\ UNCHANGED <<serverVars, calls, conn>>

NextAnimated ==
  \/ ObserverCallback
  \/ RevealTimerFires
  \/ MountTimerFires
  \/ Unmount

SpecAnimated == InitAnimated /\ [][NextAnimated]_vars

----------------------------------------------------------------------------
(* The claims.                                                             *)

\* A value that is no text: not a string, or a string of white space only.
NoText(v) == v.t # "string" \/ \A i \in 1..Len(v.v) : v.v[i] = " "

\* The messages of validateRsvp in the order of its checks.
MessageOrder ==
  <<MsgName, MsgEmail, MsgEmailFormat, MsgPhone, MsgAttending, MsgGuests,
    MsgAccommodations, MsgGuestName, MsgAccommodationsText>>

\* The check that message m reports fails on the payload d.
CheckFails(m, d) ==
  CASE m = MsgName -> NoText(Get(d, "name"))
    [] m = MsgEmail -> NoText(Get(d, "email"))
    [] m = MsgEmailFormat ->
         ~NoText(Get(d, "email")) /\ ~emailRegexTest(Get(d, "email").v)
    [] m = MsgPhone -> NoText(Get(d, "phone"))
    [] m = MsgAttending -> Get(d, "attending").t # "boolean"
    [] m = MsgGuests -> Get(d, "guests").t # "boolean"
    [] m = MsgAccommodations -> Get(d, "accommodations").t # "boolean"
    [] m = MsgGuestName ->
         Get(d, "guests") = Bool(TRUE) /\ NoText(Get(d, "guestName"))
    [] m = MsgAccommodationsText ->
         Get(d, "accommodations") = Bool(TRUE)
           /\ NoText(Get(d, "accommodationsText"))

ExpectedErrors(d) == SelectSeq(MessageOrder, LAMBDA m : CheckFails(m, d))

\* C1: validateRsvp returns the messages of exactly the failing checks, in the
\* order name, email, phone, attending, guests, accommodations, guest name,
\* accommodation details, and isValid is true exactly when the list is empty.
C1_ValidateReportsEveryFailure ==
  ret # NoRet =>
    /\ ret.errors = ExpectedErrors(arg)
    /\ ret.isValid = (ret.errors = <<>>)

\* C1 witness: three independent checks fail in one call.
C1_Witness ==
  /\ ret # NoRet
  /\ ret.errors = <<MsgName, MsgEmailFormat, MsgGuestName>>
  /\ ~ret.isValid

\* A string that is not empty.
NonEmptyText(v) == v.t = "string" /\ v.v # <<>>

\* C2: every stored record with guests = true has a non-empty guestName.
C2_GuestNameWhenGuests ==
  \A i \in 1..Len(store) :
    Get(store[i], "guests") = Bool(TRUE) =>
      NonEmptyText(Get(store[i], "guestName"))

\* C3: a record created by POST /rsvps is stored with approved = false.
C3_PostStoresUnapproved ==
  (req.method = "POST" /\ res.status = 201) =>
    /\ res.data["approved"] = Bool(FALSE)
    /\ getRsvpById(store, res.data["_id"].v)["approved"] = Bool(FALSE)

\* The step serves a request of the given method.
Serves(method) == Idle /\ req'.method = method

\* C4: a PUT whose body is {approved: v} on an existing record changes only
\* approved and updatedAt of that record and no other record.
C4_ApprovalUpdateFrame ==
  [][(/\ Serves("PUT")
      /\ DOMAIN req'.body = {"approved"}
      /\ ~IdFails(req'.id)
      /\ getRsvpById(store, req'.id) # Null) =>
       /\ res'.status = 200
       /\ Len(store') = Len(store)
       /\ \A i \in 1..Len(store) :
            IF store[i]["_id"] = ObjectIdFrom(req'.id)
            THEN /\ DOMAIN store'[i] = DOMAIN store[i]
                 /\ \A k \in DOMAIN store[i] \ {"approved", "updatedAt"} :
                      store'[i][k] = store[i][k]
                 /\ store'[i]["approved"] = req'.body["approved"]
            ELSE store'[i] = store[i]]_vars

\* C4 witness: an approval has been applied, after the record's creation, in
\* a collection that holds another record.
C4_Witness ==
  /\ req.method = "PUT"
  /\ DOMAIN req.body = {"approved"}
  /\ res.status = 200
  /\ res.data["approved"] = Bool(TRUE)
  /\ res.data["updatedAt"].v > res.data["createdAt"].v
  /\ Len(store) = 2

\* C5: a POST whose payload fails validation is answered 400 with the error
\* list, the collection is unchanged and no store call is made.
C5_InvalidPostRejected ==
  [][(Serves("POST") /\ ExpectedErrors(req'.body) # <<>>) =>
       /\ res'.status = 400
       /\ res'.errors = ExpectedErrors(req'.body)
       /\ store' = store
       /\ nextId' = nextId
       /\ dbCalls' = <<>>]_vars

\* C5 witness: a submission with two errors was refused while a record is stored.
C5_Witness ==
  /\ req.method = "POST"
  /\ res.status = 400
  /\ Len(res.errors) = 2
  /\ Len(store) = 1

\* An id that has not the shape of an identifier.
Malformed(id) == Len(id) # IdLength \/ \E i \in 1..Len(id) : id[i] \notin HexChars

\* C6: a request to /rsvps/{id} with a malformed id is answered 400 and makes
\* no store call.
C6_MalformedIdRefused ==
  (req.path = "/api/rsvps/[id]" /\ Malformed(req.id)) =>
    (res.status = 400 /\ dbCalls = <<>>)

\* The record with the n-th generated id is in the collection.
Stored(coll, n) ==
  \E i \in 1..Len(coll) : coll[i]["_id"] = ObjectId(GeneratedHex(n))

\* C7: DELETE of a stored id succeeds and removes exactly that record, DELETE
\* of an id that is not stored is answered not-found and changes nothing, and
\* an id that has been removed is never found again.
C7_DeleteRemovesExactlyOne ==
  [][/\ (Serves("DELETE") /\ ~IdFails(req'.id)) =>
          LET oid == ObjectIdFrom(req'.id)
              present == \E i \in 1..Len(store) : store[i]["_id"] = oid
          IN /\ deleteRsvpResult(store, req'.id) = present
             /\ IF present
                THEN /\ res'.status = 200
                     /\ store' = SelectSeq(store, LAMBDA d : d["_id"] # oid)
                     /\ Len(store') = Len(store) - 1
                     /\ getRsvpById(store', req'.id) = Null
                ELSE /\ res'.status = 404
                     /\ store' = store
     /\ \A n \in 1..nextId : ~Stored(store, n) => ~Stored(store', n)]_vars

\* C7 witness: a record was created and deleted, and a later GET of its id
\* is answered not-found.
C7_Witness ==
  /\ req.method = "GET"
  /\ req.id = GeneratedHex(1)
  /\ res.status = 404
  /\ nextId >= 1

\* C8: the record POST returns is the record getRsvpById finds under the
\* returned id, and stays so until a PUT or DELETE of that id.
C8_CreateThenGetRoundTrip ==
  [][/\ (Serves("POST") /\ res'.status = 201) =>
          getRsvpById(store', res'.data["_id"].v) = res'.data
     /\ \/ store' = store
        \/ \A n \in 1..nextId :
             (/\ Stored(store, n)
              /\ ~(/\ req'.method \in {"PUT", "DELETE"}
                   /\ ObjectIdFrom(req'.id) = ObjectId(GeneratedHex(n)))) =>
               getRsvpById(store', GeneratedHex(n)) = getRsvpById(store, GeneratedHex(n))
     /\ (Serves("GET") /\ req'.path = "/api/rsvps/[id]" /\ res'.status = 200) =>
          res'.data = getRsvpById(store, req'.id)]_vars

\* C8 witness: a GET returned a record that a POST created and normalised.
C8_Witness ==
  /\ req.method = "GET"
  /\ req.path = "/api/rsvps/[id]"
  /\ res.status = 200
  /\ res.data["email"] = Str(toLowerCase(EmailB))
  /\ res.data["updatedAt"].v > res.data["createdAt"].v

ModelFields ==
  {"_id", "name", "email", "phone", "attending", "guests", "guestName",
   "dietaryRestrictions", "accommodations", "accommodationsText", "song",
   "message", "approved", "createdAt", "updatedAt"}

\* C9: every stored record holds only the fields of the data model, and its
\* dietaryRestrictions is the six boolean flags and the text field other.
C9_OnlyModelFieldsStored ==
  \A i \in 1..Len(store) :
    /\ DOMAIN store[i] \subseteq ModelFields
    /\ Get(store[i], "dietaryRestrictions").t = "object"
    /\ DOMAIN Get(store[i], "dietaryRestrictions").v = DietFlags \cup {"other"}
    /\ \A k \in DietFlags :
         Get(store[i], "dietaryRestrictions").v[k].t = "boolean"
    /\ Get(store[i], "dietaryRestrictions").v["other"].t = "string"

\* C10: every stored record with accommodations = true has a non-empty
\* accommodationsText.
C10_AccommodationsTextWhenNeeded ==
  \A i \in 1..Len(store) :
    Get(store[i], "accommodations") = Bool(TRUE) =>
      NonEmptyText(Get(store[i], "accommodationsText"))

\* C10 witness: a record with accommodations = true is stored and a PUT that
\* names accommodations has been applied.
C10_Witness ==
  /\ req.method = "PUT"
  /\ res.status = 200
  /\ "accommodations" \in DOMAIN req.body
  /\ \E i \in 1..Len(store) : store[i]["accommodations"] = Bool(TRUE)

\* An email as the data model keeps it: lower-cased, trimmed, local@domain.tld.
EmailStored(v) ==
  /\ v.t = "string"
  /\ toLowerCase(v.v) = v.v
  /\ trim(v.v) = v.v
  /\ emailRegexTest(v.v)

\* The value does not match the local@domain.tld pattern.
EmailMalformed(v) == v.t # "string" \/ ~emailRegexTest(v.v)

\* C11: after every step the email of every stored record is lower-cased,
\* trimmed and of the shape local@domain.tld, and a PUT whose email does not
\* match the pattern changes no stored email.
C11_StoredEmailNormalised ==
  [][/\ \A i \in 1..Len(store') : EmailStored(Get(store'[i], "email"))
     /\ (/\ Serves("PUT")
         /\ "email" \in DOMAIN req'.body
         /\ EmailMalformed(req'.body["email"])) =>
          /\ Len(store') = Len(store)
          /\ \A i \in 1..Len(store) : store'[i]["email"] = store[i]["email"]]_vars

\* C11 witness: a record holds the lower-cased form of a mixed-case email and
\* a PUT to its id with an email that starts with a space has been refused.
C11_Witness ==
  /\ req.method = "PUT"
  /\ req.body = [email |-> Str(EmailSpace)]
  /\ res.status = 400
  /\ \E i \in 1..Len(store) :
       /\ store[i]["_id"] = ObjectIdFrom(req.id)
       /\ store[i]["email"] = Str(toLowerCase(EmailB))

\* The body names none of the fields handlePut copies.
NoUpdatableField(body) == DOMAIN body \cap PutFields = {}

\* C12: a PUT to a well-formed id that no record has is answered 404; a PUT to
\* a stored id whose email is malformed, or whose body names no updatable
\* field, is answered 400; in all these cases the collection is unchanged.
C12_PutErrorsLeaveStore ==
  [][(Serves("PUT") /\ ~Malformed(req'.id)) =>
       LET found == \E i \in 1..Len(store) :
                      store[i]["_id"] = ObjectIdFrom(req'.id)
           badEmail == /\ "email" \in DOMAIN req'.body
                       /\ EmailMalformed(req'.body["email"])
       IN /\ ~found => (res'.status = 404 /\ store' = store)
          /\ (found /\ (badEmail \/ NoUpdatableField(req'.body))) =>
               (res'.status = 400 /\ store' = store)]_vars

\* The methods each route serves.
Supported(path) ==
  CASE path = "/api/rsvps" -> {"GET", "POST"}
    [] path = "/api/rsvps/[id]" -> {"GET", "PUT", "DELETE"}
    [] OTHER -> {"GET"}

\* Serving the request, validation, normalisation or a store operation throws.
Throws ==
  \/ /\ req.method = "POST"
     /\ \/ req.body = Null
        \/ ExpectedErrors(req.body) = <<>> /\ createRsvpObjectThrows(req.body)
  \/ /\ req.path = "/api/rsvps/[id]"
     /\ req.method \in Supported(req.path)
     /\ Len(req.id) = IdLength
     /\ Malformed(req.id)
  \/ /\ req.method = "PUT"
     /\ ~Malformed(req.id)
     /\ \E i \in 1..Len(store) : store[i]["_id"] = ObjectIdFrom(req.id)
     /\ "guestName" \in DOMAIN req.body
     /\ req.body["guestName"].t # "string"
  \/ dbCalls = <<"connectToDatabase rejected">>

\* The response is one JSON envelope, and a fault is answered 500.
EnvelopeSent ==
  /\ res.status \in {200, 201, 400, 404, 405, 500}
  /\ res.success = (res.status \in {200, 201})
  /\ ~res.success => res.error # ""
  /\ Throws => (res.status = 500 /\ res.error = "Internal Server Error")

\* C13 as stated: every request is answered by one JSON envelope, a fault by
\* 500, and every request with an unsupported method by 405.
C13_EveryRequestAnswered ==
  ~Idle =>
    /\ EnvelopeSent
    /\ req.method \notin Supported(req.path) => res.status = 405

\* C13 amended: every request is answered by one JSON envelope, a fault by
\* 500, and a request with an unsupported method by 405, except that
\* /rsvps/{id} answers 400 when the id has not 24 characters, whatever the
\* method.
C13_AnsweredIdLengthFirst ==
  ~Idle =>
    /\ EnvelopeSent
    /\ req.method \notin Supported(req.path) =>
         res.status = IF req.path = "/api/rsvps/[id]" /\ Len(req.id) # IdLength
                      THEN 400 ELSE 405

\* C13 witness: the store was unavailable to a valid POST, which was answered
\* 500 while the collection kept its record.
C13_Witness ==
  /\ req.method = "POST"
  /\ dbCalls = <<"connectToDatabase rejected">>
  /\ res.status = 500
  /\ Len(store) = 1

\* C14: a created record carries the id the store generated and the creation
\* time; no PUT changes the _id or createdAt of any record; a successful PUT
\* sets updatedAt of its record to the current time; and updatedAt is never
\* earlier than createdAt.
C14_IdAndCreatedAtImmutable ==
  [][/\ \A i \in 1..Len(store') :
          store'[i]["updatedAt"].v >= store'[i]["createdAt"].v
     /\ (Serves("POST") /\ res'.status = 201) =>
          /\ res'.data["_id"] = ObjectId(GeneratedHex(nextId'))
          /\ res'.data["createdAt"] = Date(now)
     /\ Serves("PUT") =>
          /\ Len(store') = Len(store)
          /\ \A i \in 1..Len(store) :
               /\ store'[i]["_id"] = store[i]["_id"]
               /\ store'[i]["createdAt"] = store[i]["createdAt"]
          /\ res'.status = 200 =>
               /\ res'.data["_id"] = ObjectIdFrom(req'.id)
               /\ res'.data["updatedAt"] = Date(now')
               /\ getRsvpById(store', req'.id) = res'.data]_vars

\* C14 witness: the second record created has been updated at a later time.
C14_Witness ==
  /\ req.method = "PUT"
  /\ res.status = 200
  /\ "email" \in DOMAIN req.body
  /\ res.data["_id"] = ObjectId(GeneratedHex(2))
  /\ res.data["createdAt"] = Date(0)
  /\ res.data["updatedAt"] = Date(1)

\* C15: when both concurrent updates of one record have returned, the record
\* is what the two $set produce applied one after the other in the order the
\* store took them: the first caller was returned the record with only its
\* own fields set, the second the final record, in which a field both wrote
\* has the second's value and a field one wrote has that one's value.
C15_ConcurrentUpdatesSerialised ==
  (\A p \in Callers : calls[p].pc = "returned") =>
    \E p, q \in Callers :
      /\ p # q
      /\ calls[p].result = calls[p].set @@ ConcurrentRecord
      /\ calls[q].result = calls[q].set @@ calls[p].set @@ ConcurrentRecord
      /\ store = <<calls[q].result>>
      /\ \A k \in DOMAIN store[1] :
           store[1][k] = IF k \in DOMAIN calls[q].set THEN calls[q].set[k]
                         ELSE IF k \in DOMAIN calls[p].set THEN calls[p].set[k]
                         ELSE ConcurrentRecord[k]

\* C15 witness: both updates have returned; they wrote approved with different
\* values and each wrote a field the other did not; the update sent first was
\* applied last, so the record carries the earlier updatedAt.
C15_Witness ==
  /\ \A p \in Callers : calls[p].pc = "returned"
  /\ DOMAIN calls[1].updateData = {"approved", "guestName"}
  /\ DOMAIN calls[2].updateData = {"approved", "attending"}
  /\ calls[1].updateData["approved"] # calls[2].updateData["approved"]
  /\ calls[1].set["updatedAt"].v < calls[2].set["updatedAt"].v
  /\ store[1]["updatedAt"] = calls[1].set["updatedAt"]
  /\ store[1]["approved"] = calls[1].updateData["approved"]
  /\ store[1]["attending"] = calls[2].updateData["attending"]

\* The number of stored records whose field k has one of the values vs.
CountWhere(k, vs) == Cardinality({i \in 1..Len(store) : Get(store[i], k) \in vs})

\* C16: stats() returns total = the number of records, attending = the number
\* with attending = true, notAttending = the number with attending false or
\* absent, total = attending + notAttending, and on an empty collection the
\* record of four zeros.
C16_StatsCounts ==
  (req.path = "/api/rsvps/stats" /\ res.status = 200) =>
    /\ res.data.total = Len(store)
    /\ res.data.attending = CountWhere("attending", {Bool(TRUE)})
    /\ res.data.notAttending = CountWhere("attending", {Bool(FALSE), Undefined})
    /\ res.data.total = res.data.attending + res.data.notAttending
    /\ store = <<>> =>
         res.data = [total |-> 0, attending |-> 0, notAttending |-> 0,
                     totalGuests |-> 0]

\* C16 witness: stats of a collection of one attending and one not attending.
C16_Witness ==
  /\ req.path = "/api/rsvps/stats"
  /\ res.status = 200
  /\ res.data.total = 2
  /\ res.data.attending = 1
  /\ res.data.notAttending = 1

\* C17: stats().totalGuests is the number of records with attending = true
\* and guests = true.
C17_TotalGuestsCountsAdditionalGuests ==
  (req.path = "/api/rsvps/stats" /\ res.status = 200) =>
    res.data.totalGuests =
      Cardinality({i \in 1..Len(store) :
                     /\ Get(store[i], "attending") = Bool(TRUE)
                     /\ Get(store[i], "guests") = Bool(TRUE)})

\* C18: check-email called with an email (no white space around it) answers
\* exists = true and a stored record whose email is the lower-cased email
\* when a record holds that lower-cased email, and exists = false and
\* rsvp = null when none does; getRsvpByEmail finds the same record.
C18_EmailLookupIgnoresCase ==
  (/\ req.path = "/api/rsvps/check-email"
   /\ req.method = "GET"
   /\ Get(req.query, "email").t = "string"
   /\ Get(req.query, "email").v # <<>>
   /\ trim(req.query["email"].v) = req.query["email"].v) =>
     LET e == Str(toLowerCase(req.query["email"].v))
         held == \E i \in 1..Len(store) : store[i]["email"] = e
     IN /\ res.status = 200
        /\ res.exists = held
        /\ getRsvpByEmail(store, req.query["email"].v) = res.rsvp
        /\ IF held
           THEN /\ \E i \in 1..Len(store) : store[i] = res.rsvp
                /\ res.rsvp["email"] = e
           ELSE res.rsvp = Null

\* C18 witness: a record created with a@b.c is found under A@B.C while
\* another record with another email is stored before it.
C18_Witness ==
  /\ req.path = "/api/rsvps/check-email"
  /\ req.method = "GET"
  /\ Get(req.query, "email") = Str(EmailUpperA)
  /\ res.status = 200
  /\ res.exists
  /\ res.rsvp["email"] = Str(EmailA)
  /\ res.rsvp["_id"] = ObjectId(GeneratedHex(2))

\* C19: GET /rsvps returns stored records that match the filter, each once,
\* newest first by createdAt; all the matching records when the limit is 0 or
\* absent and the limit newest of them otherwise; count is the length of data.
C19_ListFilteredNewestFirst ==
  (req.path = "/api/rsvps" /\ req.method = "GET" /\ res.status = 200) =>
    LET filter == handleGetFilter(req.query)
        n == handleGetLimit(req.query)
        matching == {i \in 1..Len(store) :
                       \A k \in DOMAIN filter : Get(store[i], k) = filter[k]}
        data == res.data
        returned == {i \in matching : \E j \in 1..Len(data) : data[j] = store[i]}
    IN /\ res.count = Len(data)
       /\ \A j \in 1..Len(data) : \E i \in matching : data[j] = store[i]
       /\ \A j, l \in 1..Len(data) : data[j]["_id"] = data[l]["_id"] => j = l
       /\ \A j, l \in 1..Len(data) :
            j < l => data[j]["createdAt"].v >= data[l]["createdAt"].v
       /\ Len(data) = IF n > 0 /\ n < Cardinality(matching) THEN n
                      ELSE Cardinality(matching)
       /\ \A i \in returned : \A m \in matching \ returned :
            store[i]["createdAt"].v >= store[m]["createdAt"].v

\* C19 witness: of two records that are not attending, created at different
\* times, the list with attending=false and limit=1 holds the newer one.
C19_Witness ==
  /\ req.path = "/api/rsvps"
  /\ req.method = "GET"
  /\ Get(req.query, "attending") = Str(TextFalse)
  /\ res.status = 200
  /\ res.count = 1
  /\ Len(store) = 2
  /\ store[1]["attending"] = Bool(FALSE)
  /\ store[1]["createdAt"].v < store[2]["createdAt"].v
  /\ res.data[1] = store[2]

\* C20: createRsvpObject applied to its own result does not throw and gives
\* the same value in every field but updatedAt, which is a time not before
\* the first call's; a createdAt date in the input is the createdAt of the
\* result.
C20_NormalizeIdempotent ==
  (ret # NoRet /\ ~createRsvpObjectThrows(arg)) =>
    /\ ~ret.threw
    /\ DOMAIN ret.twice = DOMAIN ret.once
    /\ \A k \in DOMAIN ret.once \ {"updatedAt"} : ret.twice[k] = ret.once[k]
    /\ ret.twice["updatedAt"].t = "date"
    /\ ret.twice["updatedAt"].v >= ret.once["updatedAt"].v
    /\ arg.createdAt.t = "date" => ret.once["createdAt"] = arg.createdAt

\* C20 witness: an input with untrimmed text, a number for a flag and its own
\* createdAt was normalised twice, the second time at a later moment.
C20_Witness ==
  /\ ret # NoRet
  /\ arg.name = Str(TextTwoSpaces)
  /\ arg.attending = Str(TextAl)
  /\ arg.dietaryRestrictions.t = "object"
  /\ arg.createdAt = Date(0)
  /\ ~createRsvpObjectThrows(arg)
  /\ ret.once["name"] = Str(<<"A">>)
  /\ ret.once["updatedAt"] = Date(0)
  /\ ret.twice["updatedAt"] = Date(1)

----------------------------------------------------------------------------
\* C25: every POST /api/rsvps whose payload validateRsvp accepts is, when
\* the store does not fail, answered 201 and adds exactly one record to the
\* collection: createRsvpObject never throws on an accepted payload.
C25_ValidPostCreates ==
  [][(Serves("POST") /\ validateRsvp(req'.body).isValid)
       => /\ res'.status = 201
          /\ Len(store') = Len(store) + 1]_vars

----------------------------------------------------------------------------
\* The clients whose connect() has resolved and that no ping found stale.
Connected == {c \in 1..Len(conn.clients) : conn.clients[c] = "connected"}

\* C21: while no cached connection has been dropped, at most one client is
\* ever created and connected, under every interleaving of the callers, and
\* every connectToDatabase call that returns, returns that one client.
C21_OneSharedClient ==
  (\A c \in 1..Len(conn.clients) : conn.clients[c] # "stale")
    => /\ Cardinality(Connected) <= 1
       /\ \A p \in Callers :
            calls[p].pc = "returned"
              => \A c \in Connected : calls[p].result.client = Client(c)

\* C22: a connect() that rejects changes nothing but its own caller: the
\* cache and the other callers are left as they were, the cache never holds
\* half a pair or a client that did not connect, and it is empty when no
\* attempt has succeeded.  The next call of a caller that threw makes a
\* fresh attempt when the cache is empty, and an attempt that succeeds
\* returns its connected client, which is then the cached one.
C22_FailedConnectLeavesCacheClean ==
  [][/\ (conn'.cachedClient = Null) <=> (conn'.cachedDb = Null)
     /\ conn'.cachedClient # Null
          => /\ conn'.clients[conn'.cachedClient.v] = "connected"
             /\ conn'.cachedDb = Db(conn'.cachedClient.v)
     /\ \A p \in Callers :
          /\ (calls[p].pc = "connecting" /\ calls'[p].pc = "threw")
               => /\ conn'.cachedClient = conn.cachedClient
                  /\ conn'.cachedDb = conn.cachedDb
                  /\ conn'.cachedClient # Client(calls[p].client)
                  /\ \A q \in Callers \ {p} : calls'[q] = calls[q]
                  /\ (\A c \in 1..Len(conn'.clients) :
                        conn'.clients[c] # "connected")
                       => conn'.cachedClient = Null
          /\ (calls[p].pc = "threw" /\ calls'[p].pc # "threw"
                /\ conn.cachedClient = Null)
               => /\ calls'[p].pc = "connecting"
                  /\ Len(conn'.clients) = Len(conn.clients) + 1
                  /\ calls'[p].client = Len(conn'.clients)
          /\ (calls[p].pc = "connecting" /\ calls'[p].pc = "returned")
               => /\ conn'.clients[calls[p].client] = "connected"
                  /\ calls'[p].result = [client |-> Client(calls[p].client),
                                         db |-> Db(calls[p].client)]
                  /\ conn'.cachedClient = Client(calls[p].client)]_vars

\* A caller whose first attempt failed has called again and holds the client
\* of its second attempt, which is the cached one.
C22_Witness ==
  \E p \in Callers :
    /\ calls[p].pc = "returned"
    /\ calls[p].n = 2
    /\ calls[p].client = 2
    /\ conn.clients = <<"failed", "connected">>
    /\ conn.cachedClient = Client(2)
    /\ calls[p].result.client = Client(2)

----------------------------------------------------------------------------
\* C23: a PUT /api/rsvps/{id} whose body handlePut accepts is answered 200
\* with the record as it is after the update, or 404, under every
\* interleaving with a DELETE of the same id: it never reports success
\* without a record.
C23_PutNeverSucceedsOnDeleted ==
  \A p \in Callers :
    (/\ calls[p].pc = "answered"
     /\ calls[p].req.method = "PUT"
     /\ handlePutRefusal(ConcurrentRecord, calls[p].req.body) = NoRes)
      => \/ calls[p].res.status = 404
         \/ /\ calls[p].res.status = 200
            /\ calls[p].res.data # Null

----------------------------------------------------------------------------
\* C24: once every submission flow has finished, no two stored records have
\* the same email, also when two flows for one email ran at the same time.
C24_EmailUniqueAfterFlows ==
  (\A p \in Callers : calls[p].pc \in {"done", "failed", "left"})
    => \A i, j \in 1..Len(store) :
         store[i]["email"] = store[j]["email"] => i = j

\* C26: when the POST of a flow that has deleted the guest's previous record
\* is rejected, a record with the email of the form is in the collection as
\* the flow ends.
C26_ReplaceKeepsAnRsvp ==
  [][\A p \in Callers :
       (calls[p].pc = "replacing" /\ calls'[p].pc = "failed")
         => \E i \in 1..Len(store') :
              store'[i]["email"]
                = Str(trim(toLowerCase(calls[p].formData.email.v)))]_vars

----------------------------------------------------------------------------
\* C27: when the approve, revoke and delete actions of the admin page, each
\* on a record of its own, have all returned and every request succeeded,
\* the displayed list agrees with the collection on every record an action
\* touched: the record is listed exactly when it is stored, with the stored
\* value of approved.
C27_AdminListAgreesWithStore ==
  (/\ \A p \in Callers : calls[p].pc = "returned" /\ calls[p].data.success
   /\ \A p, q \in Callers : calls[p].id = calls[q].id => p = q)
    => \A p \in Callers :
         LET stored == getRsvpById(store, calls[p].id)
             shown == SelectSeq(page.rsvps,
                                LAMBDA rsvp : rsvp["_id"] = Str(calls[p].id))
         IN IF stored = Null THEN shown = <<>>
            ELSE /\ Len(shown) = 1
                 /\ shown[1]["approved"] = stored["approved"]

----------------------------------------------------------------------------
\* The output of the latest render of ProtectedPage.
Shown == page.rendered[Len(page.rendered)]

\* The signed-in user's primary email, lower-cased, is in the allow-list.
Listed ==
  /\ page.user.t = "object"
  /\ page.user.v["primaryEmailAddress"].t = "object"
  /\ toLowerCase(page.user.v["primaryEmailAddress"].v["emailAddress"].v)
       \in WHITELIST

----------------------------------------------------------------------------
\* C29: a timer started by an earlier showToast call never hides the toast
\* of a later call before the later call's duration has passed since it was
\* shown (never at all when that duration is 0).
C29_EarlierTimerSparesLaterToast ==
  [][\A timer \in page.timers :
       (/\ timer \notin page'.timers
        /\ timer.call < page.shows
        /\ page.toast.visible
        /\ ~page'.toast.visible)
         => /\ page.duration > 0
            /\ page.clock >= page.shownAt + page.duration]_vars

----------------------------------------------------------------------------
\* C30: a mounted scroll-triggered component schedules its reveal once,
\* when the element first becomes visible enough; isVisible is true once
\* the reveal timer has fired and never returns to false, and later
\* visibility changes schedule nothing.
C30_RevealScheduledOnce ==
  [][(page.triggerOnScroll /\ page.mounted)
       => /\ page'.scheduled <= 1
          /\ page.isVisible => page'.isVisible
          /\ page'.timers < page.timers => page'.isVisible
          /\ (page.scheduled = 0 /\ page'.isIntersecting)
               => page'.scheduled = 1]_vars

============================================================================
